---- MODULE Spec2Model ----
(***************************************************************************)
(* Deterministic run engine of sigilzero-ai: the three pipelines           *)
(* (instagram_copy, brand_compliance_score, brand_optimization) acting on  *)
(* the artifacts/ tree.  Strings are sequences of one-character strings.   *)
(* A path artifacts/<root>/<name> is the pair <<root, name>>; the legacy   *)
(* location is the root "runs".                                            *)
(***************************************************************************)
EXTENDS Integers, Sequences, FiniteSets, TLC

\* ---------------------------------------------------------------- bounds
NumProcs == 2
NumVariants == 2

\* ------------------------------------------------------------- constants
RunIdLen == 32
HexLen == 64
Sha256PrefixLen == 7
FirstSuffix == 2
MaxSuffix == 1000

Procs == 1..NumProcs
Pipes == {"ig", "bcs", "opt"}
Briefs == [pipe : Pipes, v : 1..NumVariants]
NoBrief == [pipe |-> "none", v |-> 0]
LegacyRoot == "runs"

\* ------------------------------------------------------- string helpers
Sha256Prefix == <<"s", "h", "a", "2", "5", "6", ":">>
DigitChars == <<"0", "1", "2", "3", "4", "5", "6", "7", "8", "9">>

StartsWith(s, pre) ==
    /\ Len(s) >= Len(pre)
    /\ SubSeq(s, 1, Len(pre)) = pre

Prefix(s, n) == SubSeq(s, 1, IF Len(s) < n THEN Len(s) ELSE n)

RECURSIVE ToStr(_)
ToStr(n) ==
    IF n < 10 THEN <<DigitChars[n + 1]>>
    ELSE ToStr(n \div 10) \o <<DigitChars[(n % 10) + 1]>>

\* ------------------------------------------------------------- hashing
\* job_id of a brief: each pipeline's briefs carry that pipeline's job_id.
JobId(b) == b.pipe

PipeChar(pipe) == CASE pipe = "ig" -> "1" [] pipe = "bcs" -> "2" [] OTHER -> "3"

\* SHA-256 over the canonical snapshot-hash mapping of brief b, as a table of
\* 64 hex characters.  The table is engineered: the briefs of variants 1 and 2
\* of every pipeline share their first 32 characters (equal run_id_base) and
\* differ afterwards; further variants have another base, and so has the
\* historical brief (variant 0).
Digest(b) ==
    [i \in 1..HexLen |->
        CASE i <= RunIdLen -> (IF b.v = 0 THEN "c" ELSE IF b.v <= 2 THEN "a" ELSE "b")
          [] i = RunIdLen + 1 -> PipeChar(b.pipe)
          [] i = RunIdLen + 2 -> DigitChars[b.v + 1]
          [] OTHER -> "0"]

sha256_text(digest) == Sha256Prefix \o digest

compute_inputs_hash(b) == sha256_text(Digest(b))

derive_run_id_short(inputs_hash, suffix) ==
    LET hex_hash == IF StartsWith(inputs_hash, Sha256Prefix)
                    THEN SubSeq(inputs_hash, Sha256PrefixLen + 1, Len(inputs_hash))
                    ELSE inputs_hash
        run_id == Prefix(hex_hash, RunIdLen - 1)
    IN  IF suffix # <<>> THEN run_id \o <<"-">> \o suffix ELSE run_id

derive_run_id(inputs_hash, suffix) ==
    LET hex_hash == IF StartsWith(inputs_hash, Sha256Prefix)
                    THEN SubSeq(inputs_hash, Sha256PrefixLen + 1, Len(inputs_hash))
                    ELSE inputs_hash
        run_id == Prefix(hex_hash, RunIdLen)
    IN  IF suffix # <<>> THEN run_id \o <<"-">> \o suffix ELSE run_id

\* f"{base_run_id}-{suffix}"
SuffixedRunId(base_run_id, suffix) == base_run_id \o <<"-">> \o ToStr(suffix)

\* ---------------------------------------------------------- file system
\* Snapshot names each pipeline declares.
SnapshotNames(pipe) ==
    CASE pipe = "ig" -> {"brief", "context", "model_config", "doctrine"}
      [] pipe = "bcs" -> {"brief", "context", "model_config", "doctrine", "prompt_template"}
      [] OTHER -> {"brief", "context", "model_config", "doctrine", "prior_artifact"}

\* The snapshot files of brief b: name -> content (the brief stands for the
\* bytes its snapshots have).
Snapshots(b) == [n \in SnapshotNames(b.pipe) |-> b]

EmptyFiles == <<>>

\* A directory entry.  manifest is <<>> (no manifest.json) or <<m>>.
Dir(manifest, inputs, outputs, subdirs) ==
    [kind |-> "dir", target |-> <<>>, manifest |-> manifest,
     inputs |-> inputs, outputs |-> outputs, subdirs |-> subdirs]

\* A symlink entry; target is the path the relative link resolves to.
Link(target) ==
    [kind |-> "link", target |-> target, manifest |-> <<>>,
     inputs |-> EmptyFiles, outputs |-> EmptyFiles, subdirs |-> {}]

Manifest(job_id, run_id, inputs_hash, status, error, writer) ==
    [job_id |-> job_id, run_id |-> run_id, inputs_hash |-> inputs_hash,
     status |-> status, error |-> error, writer |-> writer]

VARIABLES
    fs,      \* artifacts tree: path <<root, name>> -> entry, for existing paths
    tmp,     \* temp directories: process -> directory, for existing ones
    ex,      \* per process: position and locals of its pipeline execution
    hx,      \* byte-level view of executions: snapshot files and their hashes
    mig,     \* schema migration: manifest.json, its backup, the call in progress
    idx,     \* integrity verification and reindexing of the runs on disk
    trc,     \* tracing: the calls made to the tracing client during a run
    swp,     \* orphaned temp directories: path -> older than the sweeper's threshold
    chn      \* chain resolution: per execution, the listing read and what it resolved

\* The parts of the state a pipeline execution does not touch.
tools == <<mig, idx, trc, swp, chn>>

vars == <<fs, tmp, ex, hx, mig, idx, trc, swp, chn>>

Put(f, path, entry) == [q \in DOMAIN f \cup {path} |-> IF q = path THEN entry ELSE f[q]]
Remove(f, path) == [q \in DOMAIN f \ {path} |-> f[q]]

IsSymlinkIn(f, path) == path \in DOMAIN f /\ f[path].kind = "link"

\* Path.exists(): follows symlinks, a dangling symlink does not exist.
ExistsIn(f, path) ==
    /\ path \in DOMAIN f
    /\ \/ f[path].kind = "dir"
       \/ /\ f[path].kind = "link"
          /\ f[path].target \in DOMAIN f
          /\ f[f[path].target].kind = "dir"

Exists(path) == ExistsIn(fs, path)
IsSymlink(path) == IsSymlinkIn(fs, path)

\* The directory a path denotes once symlinks are followed.
Resolved(path) == IF fs[path].kind = "link" THEN fs[path].target ELSE path

NoHashAlways(path) == <<>>

_read_manifest_inputs_hash(path) ==
    IF ~Exists(path) \/ fs[Resolved(path)].manifest = <<>>
    THEN <<>>
    ELSE fs[Resolved(path)].manifest[1].inputs_hash

IsEmptyDir(e) ==
    /\ e.kind = "dir"
    /\ e.manifest = <<>>
    /\ e.inputs = EmptyFiles
    /\ e.outputs = EmptyFiles
    /\ e.subdirs = {}

\* ------------------------------------------------- collision resolution
\* _candidate_dirs of instagram_copy and brand_compliance_score: canonical
\* first, then legacy.
_candidate_dirs(job_id, candidate_run_id) ==
    (IF Exists(<<job_id, candidate_run_id>>) THEN << <<job_id, candidate_run_id>> >> ELSE <<>>)
    \o (IF Exists(<<LegacyRoot, candidate_run_id>>) THEN << <<LegacyRoot, candidate_run_id>> >> ELSE <<>>)

\* A resolver that only replays runs that succeeded.
FirstSucceededMatch(candidates, inputs_hash) ==
    LET hits == {i \in 1..Len(candidates) :
                    /\ _read_manifest_inputs_hash(candidates[i]) = inputs_hash
                    /\ fs[Resolved(candidates[i])].manifest[1].status = "succeeded"}
    IN  IF hits = {} THEN <<>>
        ELSE << candidates[CHOOSE i \in hits : \A j \in hits : i <= j] >>

\* The first candidate whose manifest inputs_hash equals inputs_hash, as a
\* sequence of length 0 or 1.
FirstMatch(candidates, inputs_hash) ==
    LET hits == {i \in 1..Len(candidates) : _read_manifest_inputs_hash(candidates[i]) = inputs_hash}
    IN  IF hits = {} THEN <<>>
        ELSE << candidates[CHOOSE i \in hits : \A j \in hits : i <= j] >>

\* The suffix loop: run_id_base-2, -3, ... up to MaxSuffix.  The loop ends at
\* the first suffix, from suffix on, whose candidates are absent (reserve) or
\* hold the run's inputs_hash (replay), or past MaxSuffix (limit).
ScanSuffixes(job_id, base_run_id, inputs_hash, suffix) ==
    LET suffixed_candidates(k) == _candidate_dirs(job_id, SuffixedRunId(base_run_id, k))
        ends(k) == \/ suffixed_candidates(k) = <<>>
                   \/ FirstMatch(suffixed_candidates(k), inputs_hash) # <<>>
    IN  IF \A k \in suffix..MaxSuffix : ~ends(k)
        THEN [kind |-> "limit", run_id |-> <<>>, dir |-> <<>>]
        ELSE LET last == CHOOSE k \in suffix..MaxSuffix :
                             ends(k) /\ \A j \in suffix..(k - 1) : ~ends(j)
                 suffixed_run_id == SuffixedRunId(base_run_id, last)
                 hit == FirstMatch(suffixed_candidates(last), inputs_hash)
             IN  IF suffixed_candidates(last) = <<>>
                 THEN [kind |-> "reserve", run_id |-> suffixed_run_id,
                       dir |-> <<job_id, suffixed_run_id>>]
                 ELSE [kind |-> "replay", run_id |-> suffixed_run_id, dir |-> hit[1]]

\* Collision resolution of instagram_copy and brand_compliance_score.
ResolveRun(job_id, base_run_id, inputs_hash) ==
    LET base_candidates == _candidate_dirs(job_id, base_run_id)
        hit == FirstMatch(base_candidates, inputs_hash)
    IN  IF base_candidates = <<>>
        THEN [kind |-> "reserve", run_id |-> base_run_id, dir |-> <<job_id, base_run_id>>]
        ELSE IF hit # <<>>
        THEN [kind |-> "replay", run_id |-> base_run_id, dir |-> hit[1]]
        ELSE ScanSuffixes(job_id, base_run_id, inputs_hash, FirstSuffix)

\* _ensure_legacy_symlink of instagram_copy and brand_compliance_score on the
\* tree f: nothing when the legacy path exists; symlink_to fails (swallowed)
\* when a dangling link is in the way.
EnsureLegacySymlink(f, job_id, candidate_run_id) ==
    LET legacy_path == <<LegacyRoot, candidate_run_id>>
    IN  IF ExistsIn(f, legacy_path) \/ legacy_path \in DOMAIN f
        THEN f
        ELSE Put(f, legacy_path, Link(<<job_id, candidate_run_id>>))

\* _promote_legacy_to_canonical: the path returned and the tree afterwards.
_promote_legacy_to_canonical(job_id, candidate_run_id, existing_path) ==
    LET canonical_path == <<job_id, candidate_run_id>>
        legacy_path == <<LegacyRoot, candidate_run_id>>
    IN  IF existing_path = canonical_path \/ Exists(canonical_path)
        THEN [path |-> canonical_path, fs |-> fs, promoted |-> FALSE]
        ELSE IF Exists(legacy_path) /\ ~IsSymlink(legacy_path)
        THEN [path |-> canonical_path,
              fs |-> EnsureLegacySymlink(Put(Remove(fs, legacy_path), canonical_path, fs[legacy_path]),
                                         job_id, candidate_run_id),
              promoted |-> TRUE]
        ELSE [path |-> existing_path, fs |-> fs, promoted |-> FALSE]

\* ------------------------------------------------------ execution state
NoRet == [kind |-> "none", run_id |-> <<>>, idempotent_replay |-> FALSE, error |-> ""]
Returned(run_id, replay) ==
    [kind |-> "returned", run_id |-> run_id, idempotent_replay |-> replay, error |-> ""]
Raised(run_id, error) ==
    [kind |-> "raised", run_id |-> run_id, idempotent_replay |-> FALSE, error |-> error]

IdleEx ==
    [pc |-> "idle", brief |-> NoBrief, inputs_hash |-> <<>>,
     base_run_id |-> <<>>, run_id |-> <<>>, final_run_dir |-> <<>>,
     replay |-> FALSE, failed |-> FALSE, status |-> "", promoted_legacy |-> FALSE,
     ret |-> NoRet]

\* Historical data: runs that are on disk before any execution starts.  The
\* writer field of a manifest stands for its volatile fields (started_at,
\* finished_at, queue_job_id, langfuse_trace_id): the executing process, or
\* HistoricalWriter for historical data.
HistoricalWriter == 0
HistoricalRunId(b) == SubSeq(Digest(b), 1, RunIdLen)

\* The brand_compliance_score run that optimization briefs chain to
\* (chain_inputs.prior_run_id).
PriorBrief == [pipe |-> "bcs", v |-> 0]
PriorRunId == HistoricalRunId(PriorBrief)

\* A finalized directory of a historical run of brief b.
HistoricalRun(b, output) ==
    Dir(<< Manifest(JobId(b), HistoricalRunId(b),
                    Sha256Prefix \o Digest(b), "succeeded", FALSE, HistoricalWriter) >>,
        Snapshots(b), [o \in {output} |-> HistoricalWriter], {"inputs", "outputs"})

BaseFs ==
    Put(Put(<<>>, <<"bcs", PriorRunId>>, HistoricalRun(PriorBrief, "compliance_scores.json")),
        <<LegacyRoot, PriorRunId>>, Link(<<"bcs", PriorRunId>>))

\* Historical data may hold a run as a plain directory in the legacy layout.
LegacyBrief == [pipe |-> "ig", v |-> 1]
LegacyFs ==
    Put(BaseFs, <<LegacyRoot, HistoricalRunId(LegacyBrief)>>,
        HistoricalRun(LegacyBrief, "instagram_captions.md"))

Init ==
    /\ fs \in {BaseFs, LegacyFs}
    /\ tmp = <<>>
    /\ ex = [p \in Procs |-> IdleEx]
    /\ hx = <<>>
    /\ mig = <<>> /\ idx = <<>> /\ trc = <<>> /\ swp = <<>> /\ chn = <<>>

\* ------------------------------------------------ instagram_copy pipeline
\* The workers of the pool are interchangeable: they are numbered in the
\* order in which they pick up a job.
CanStart(p) ==
    /\ ex[p].pc = "idle"
    /\ \A q \in Procs : q < p => ex[q].pc # "idle"

\* Validate the brief, create the temp dir, write the snapshots, compute
\* inputs_hash and the base run_id.
Begin(p, b, pc) ==
    /\ CanStart(p)
    /\ tmp' = Put(tmp, p, Dir(<<>>, Snapshots(b), EmptyFiles, {"inputs", "outputs"}))
    /\ ex' = [ex EXCEPT ![p] = [@ EXCEPT !.pc = pc, !.brief = b,
                                         !.inputs_hash = compute_inputs_hash(b),
                                         !.base_run_id = derive_run_id(compute_inputs_hash(b), <<>>)]]

IgStart(p, b) ==
    /\ b.pipe = "ig"
    /\ Begin(p, b, "ig_resolve")
    /\ UNCHANGED fs

\* Lines 296-359: collision resolution; an idempotent replay promotes a
\* legacy directory, removes the temp dir and returns.
IgResolve(p) ==
    /\ ex[p].pc = "ig_resolve"
    /\ LET e == ex[p]
           r == ResolveRun(JobId(e.brief), e.base_run_id, e.inputs_hash)
           pr == _promote_legacy_to_canonical(JobId(e.brief), r.run_id, r.dir)
       IN  IF r.kind = "replay"
           THEN /\ fs' = pr.fs
                /\ tmp' = Remove(tmp, p)
                /\ ex' = [ex EXCEPT ![p] = [@ EXCEPT !.pc = "done", !.run_id = r.run_id,
                                                     !.final_run_dir = pr.path, !.replay = TRUE,
                                                     !.promoted_legacy = pr.promoted,
                                                     !.ret = Returned(r.run_id, TRUE)]]
           ELSE IF r.kind = "reserve"
           THEN /\ ex' = [ex EXCEPT ![p] = [@ EXCEPT !.pc = "ig_body", !.run_id = r.run_id,
                                                     !.final_run_dir = r.dir]]
                /\ UNCHANGED <<fs, tmp>>
           ELSE \* suffix > 1000: RuntimeError, the temp dir is left behind
                /\ ex' = [ex EXCEPT ![p] = [@ EXCEPT !.pc = "done",
                                                     !.ret = Raised(<<>>, "collision_limit")]]
                /\ UNCHANGED <<fs, tmp>>

FailedStatusRunning == "running"
FailedStatus == "failed"

\* Lines 401-623: the job body runs against the temp dir; whatever happens
\* the manifest is written into the temp dir (finally).
IgBody(p) ==
    /\ ex[p].pc = "ig_body"
    /\ \E ok \in BOOLEAN :
        LET e == ex[p]
            m == Manifest(JobId(e.brief), e.run_id, e.inputs_hash,
                          IF ok THEN "succeeded" ELSE FailedStatus, ~ok, p)
            outputs == IF ok THEN [o \in {"instagram_captions.md"} |-> p] ELSE EmptyFiles
        IN  /\ tmp' = [tmp EXCEPT ![p] = [@ EXCEPT !.manifest = <<m>>, !.outputs = outputs]]
            /\ ex' = [ex EXCEPT ![p] = [@ EXCEPT !.pc = "ig_rename", !.failed = ~ok]]
    /\ UNCHANGED fs

IgRenameKeepsTemp(p) ==
    /\ ex[p].pc = "ig_rename"
    /\ LET target == ex[p].final_run_dir
       IN  IF target \notin DOMAIN fs \/ IsEmptyDir(fs[target])
           THEN /\ fs' = Put(fs, target, tmp[p])
                /\ tmp' = Remove(tmp, p)
                /\ ex' = [ex EXCEPT ![p] = [@ EXCEPT !.pc = "ig_symlink"]]
           ELSE /\ ex' = [ex EXCEPT ![p] = [@ EXCEPT !.pc = "done",
                                                     !.ret = Raised(ex[p].run_id, "finalize")]]
                /\ UNCHANGED <<fs, tmp>>

\* Lines 625-631: rename the temp dir to the canonical destination; rename
\* onto an existing non-empty directory fails, then the temp dir is removed
\* and RuntimeError raised.
IgRename(p) ==
    /\ ex[p].pc = "ig_rename"
    /\ LET target == ex[p].final_run_dir
       IN  IF target \notin DOMAIN fs \/ IsEmptyDir(fs[target])
           THEN /\ fs' = Put(fs, target, tmp[p])
                /\ tmp' = Remove(tmp, p)
                /\ ex' = [ex EXCEPT ![p] = [@ EXCEPT !.pc = "ig_symlink"]]
           ELSE /\ tmp' = Remove(tmp, p)
                /\ ex' = [ex EXCEPT ![p] = [@ EXCEPT !.pc = "done",
                                                     !.ret = Raised(ex[p].run_id, "finalize")]]
                /\ UNCHANGED fs

\* Lines 633-648: legacy alias, footer, then re-raise the body failure or
\* return the result.
IgSymlink(p) ==
    /\ ex[p].pc = "ig_symlink"
    /\ fs' = EnsureLegacySymlink(fs, JobId(ex[p].brief), ex[p].run_id)
    /\ ex' = [ex EXCEPT ![p] = [@ EXCEPT !.pc = "done",
                                         !.ret = IF ex[p].failed THEN Raised(ex[p].run_id, "body")
                                                 ELSE Returned(ex[p].run_id, FALSE)]]
    /\ UNCHANGED tmp

\* ---------------------------------------- brand_compliance_score pipeline
BcsStart(p, b) ==
    /\ b.pipe = "bcs"
    /\ Begin(p, b, "bcs_resolve")
    /\ UNCHANGED fs

\* Lines 305-363: collision resolution; a replay returns the candidate as it
\* is; an exhausted suffix range removes the temp dir and raises.
BcsResolve(p) ==
    /\ ex[p].pc = "bcs_resolve"
    /\ LET e == ex[p]
           r == ResolveRun(JobId(e.brief), e.base_run_id, e.inputs_hash)
       IN  IF r.kind = "replay"
           THEN /\ tmp' = Remove(tmp, p)
                /\ ex' = [ex EXCEPT ![p] = [@ EXCEPT !.pc = "done", !.run_id = r.run_id,
                                                     !.final_run_dir = r.dir, !.replay = TRUE,
                                                     !.ret = Returned(r.run_id, TRUE)]]
           ELSE IF r.kind = "reserve"
           THEN /\ ex' = [ex EXCEPT ![p] = [@ EXCEPT !.pc = "bcs_symlink", !.run_id = r.run_id,
                                                     !.final_run_dir = r.dir]]
                /\ UNCHANGED tmp
           ELSE /\ tmp' = Remove(tmp, p)
                /\ ex' = [ex EXCEPT ![p] = [@ EXCEPT !.pc = "done",
                                                     !.ret = Raised(<<>>, "collision_limit")]]
    /\ UNCHANGED fs

\* Lines 370-371: the legacy alias is created before the run directory.
BcsSymlink(p) ==
    /\ ex[p].pc = "bcs_symlink"
    /\ fs' = EnsureLegacySymlink(fs, JobId(ex[p].brief), ex[p].run_id)
    /\ ex' = [ex EXCEPT ![p] = [@ EXCEPT !.pc = "bcs_body"]]
    /\ UNCHANGED tmp

\* The directory at path, or a new empty one (mkdir parents, exist_ok).
DirAt(path) == IF path \in DOMAIN fs THEN fs[path] ELSE Dir(<<>>, EmptyFiles, EmptyFiles, {})

\* shutil.copy2 of every snapshot file, overwriting.
CopyInto(old, new) ==
    [n \in DOMAIN old \cup DOMAIN new |-> IF n \in DOMAIN new THEN new[n] ELSE old[n]]

\* Lines 430-510 on success: LLM call and parse, then the snapshots are
\* copied into final_run_dir and the output written there.
\* Lines 535-559 on failure: the failed manifest is written into
\* final_run_dir, the temp dir removed and the exception re-raised.
BcsBody(p) ==
    /\ ex[p].pc = "bcs_body"
    /\ \E ok \in BOOLEAN :
        LET e == ex[p]
            d == DirAt(e.final_run_dir)
        IN  IF ok
            THEN /\ fs' = Put(fs, e.final_run_dir,
                              [d EXCEPT !.inputs = CopyInto(@, tmp[p].inputs),
                                        !.outputs = CopyInto(@, [o \in {"compliance_scores.json"} |-> p]),
                                        !.subdirs = @ \cup {"inputs", "outputs"}])
                 /\ ex' = [ex EXCEPT ![p] = [@ EXCEPT !.pc = "bcs_manifest"]]
                 /\ UNCHANGED tmp
            ELSE /\ fs' = Put(fs, e.final_run_dir,
                              [d EXCEPT !.manifest = << Manifest(JobId(e.brief), e.run_id, e.inputs_hash,
                                                                 "failed", TRUE, p) >>])
                 /\ tmp' = Remove(tmp, p)
                 /\ ex' = [ex EXCEPT ![p] = [@ EXCEPT !.pc = "done", !.failed = TRUE,
                                                      !.ret = Raised(ex[p].run_id, "body")]]

\* Lines 512-533 and 554-559: the manifest is written into final_run_dir,
\* the result returned, the temp dir removed.
BcsManifest(p) ==
    /\ ex[p].pc = "bcs_manifest"
    /\ LET e == ex[p]
       IN  fs' = Put(fs, e.final_run_dir,
                     [DirAt(e.final_run_dir) EXCEPT
                        !.manifest = << Manifest(JobId(e.brief), e.run_id, e.inputs_hash,
                                                 "succeeded", FALSE, p) >>])
    /\ tmp' = Remove(tmp, p)
    /\ ex' = [ex EXCEPT ![p] = [@ EXCEPT !.pc = "done", !.ret = Returned(ex[p].run_id, FALSE)]]

\* -------------------------------------------- brand_optimization pipeline
Roots == {path[1] : path \in DOMAIN fs}

\* Lines 142-151: the artifacts/* directories holding prior_run_id with a
\* manifest.
PriorArtifactRoots(prior_run_id) ==
    {r \in Roots : /\ Exists(<<r, prior_run_id>>)
                   /\ fs[Resolved(<<r, prior_run_id>>)].manifest # <<>>}

\* The outputs of a brand_compliance_score run an optimization brief can
\* list in chain_inputs.required_outputs.
RequiredOutputs == {"compliance_scores.json"}

\* Line 136: chain_inputs.required_outputs of brief b; the list is the
\* brief's own and may be empty.
required_outputs(b) == IF b.v = 2 THEN {} ELSE RequiredOutputs

\* Lines 222-229: the names under prior_output_hashes in the prior_artifact
\* snapshot written for brief b, one per required output (a missing file
\* raises).
PriorOutputHashNames(b) == required_outputs(b)

AssumeOutputsPresent(dir, b) == TRUE

\* Lines 160-163: every required output exists under outputs/ of the prior
\* run directory.
has_required_outputs(dir, b) == \A o \in required_outputs(b) : o \in DOMAIN fs[dir].outputs

\* ValueError raised before the temp dir exists.
PriorArtifactMissing(p, b) ==
    /\ CanStart(p)
    /\ ex' = [ex EXCEPT ![p] = [@ EXCEPT !.pc = "done", !.brief = b,
                                         !.ret = Raised(<<>>, "prior_artifact_missing")]]
    /\ UNCHANGED tmp

\* Lines 120-263: chain resolution (the first artifacts/* directory, in
\* iterdir order, that holds prior_run_id with a manifest), temp dir,
\* snapshots, inputs_hash.
OptStart(p, b) ==
    /\ b.pipe = "opt"
    /\ IF PriorArtifactRoots(PriorRunId) = {}
       THEN PriorArtifactMissing(p, b)
       ELSE \E r \in PriorArtifactRoots(PriorRunId) :
                IF has_required_outputs(Resolved(<<r, PriorRunId>>), b)
                THEN Begin(p, b, "opt_resolve")
                ELSE PriorArtifactMissing(p, b)
    /\ UNCHANGED fs

\* Lines 266-291: only artifacts/<job_id>/<base_run_id> is looked at; a
\* matching manifest is a replay, anything else takes base_run_id itself and
\* creates final_run_dir/inputs/outputs.
OptResolve(p) ==
    /\ ex[p].pc = "opt_resolve"
    /\ LET e == ex[p]
           existing_run_dir == <<JobId(e.brief), e.base_run_id>>
           match == /\ existing_run_dir \in DOMAIN fs
                    /\ Exists(existing_run_dir)
                    /\ _read_manifest_inputs_hash(existing_run_dir) = e.inputs_hash
       IN  /\ fs' = IF match THEN fs
                    ELSE Put(fs, existing_run_dir,
                             [DirAt(existing_run_dir) EXCEPT !.subdirs = @ \cup {"inputs", "inputs/outputs"}])
           /\ ex' = [ex EXCEPT ![p] = [@ EXCEPT !.pc = "opt_symlink", !.run_id = e.base_run_id,
                                                !.final_run_dir = existing_run_dir,
                                                !.replay = match]]
    /\ UNCHANGED tmp

\* _ensure_legacy_symlink (lines 65-90): an existing link is unlinked and
\* re-created; a plain directory in the way survives and the link is skipped.
OptEnsureLegacySymlink(f, run_id, canonical_dir) ==
    LET legacy_link == <<LegacyRoot, run_id>>
    IN  IF legacy_link \in DOMAIN f /\ f[legacy_link].kind = "dir"
        THEN f
        ELSE Put(f, legacy_link, Link(canonical_dir))

OptSymlink(p) ==
    /\ ex[p].pc = "opt_symlink"
    /\ fs' = OptEnsureLegacySymlink(fs, ex[p].run_id, ex[p].final_run_dir)
    /\ ex' = [ex EXCEPT ![p] = [@ EXCEPT !.pc = "opt_body"]]
    /\ UNCHANGED tmp

\* Lines 303-338: a final_run_dir that already has a manifest is reported as
\* idempotent_replay; otherwise snapshots are copied and the output written.
OptBody(p) ==
    /\ ex[p].pc = "opt_body"
    /\ LET e == ex[p]
           d == DirAt(e.final_run_dir)
       IN  IF d.manifest # <<>>
           THEN /\ ex' = [ex EXCEPT ![p] = [@ EXCEPT !.pc = "opt_manifest",
                                                     !.status = "idempotent_replay"]]
                /\ UNCHANGED fs
           ELSE /\ fs' = Put(fs, e.final_run_dir,
                             [d EXCEPT !.inputs = CopyInto(@, tmp[p].inputs),
                                       !.outputs = CopyInto(@, [o \in {"optimization.json"} |-> e.brief.v]),
                                       !.subdirs = @ \cup {"inputs", "outputs"}])
                /\ ex' = [ex EXCEPT ![p] = [@ EXCEPT !.pc = "opt_manifest", !.status = "succeeded"]]
    /\ UNCHANGED tmp

\* Lines 369-422: the manifest is built with the status found above and
\* written to final_run_dir/manifest.json; the temp dir is removed.
OptManifest(p) ==
    /\ ex[p].pc = "opt_manifest"
    /\ LET e == ex[p]
       IN  fs' = Put(fs, e.final_run_dir,
                     [DirAt(e.final_run_dir) EXCEPT
                        !.manifest = << Manifest(JobId(e.brief), e.run_id, e.inputs_hash,
                                                 e.status, FALSE, p) >>])
    /\ tmp' = Remove(tmp, p)
    /\ ex' = [ex EXCEPT ![p] = [@ EXCEPT !.pc = "done",
                                         !.ret = Returned(ex[p].run_id, ex[p].status = "idempotent_replay")]]

\* manifest.artifacts as the pipelines fill it: the key, the run-relative
\* path and the hash recorded for each output (the writer of a file stands
\* for its bytes). instagram_copy keys by path and hashes the text it wrote
\* (lines 551-557); brand_compliance_score and brand_optimization key by a
\* short name and hash the file read back (lines 514-519 and 384-389), in
\* brand_optimization just before the manifest is written.
ArtifactEntries(manifest, dir) ==
    IF manifest.status = "failed" THEN {}
    ELSE CASE manifest.job_id = "ig" ->
                {[key |-> <<"outputs", "instagram_captions.md">>,
                  path |-> <<"outputs", "instagram_captions.md">>,
                  sha256 |-> manifest.writer]}
           [] manifest.job_id = "bcs" ->
                {[key |-> <<"compliance_scores">>,
                  path |-> <<"outputs", "compliance_scores.json">>,
                  sha256 |-> manifest.writer]}
           [] OTHER ->
                {[key |-> <<"optimization">>,
                  path |-> <<"outputs", "optimization.json">>,
                  sha256 |-> dir.outputs["optimization.json"]]}

\* ------------------------------------------------------- specifications
Step(p) ==
    \/ IgResolve(p) \/ IgBody(p) \/ IgRename(p) \/ IgSymlink(p)
    \/ BcsResolve(p) \/ BcsSymlink(p) \/ BcsBody(p) \/ BcsManifest(p)
    \/ OptResolve(p) \/ OptSymlink(p) \/ OptBody(p) \/ OptManifest(p)

Start(p) == \E b \in Briefs : IgStart(p, b) \/ BcsStart(p, b) \/ OptStart(p, b)

\* Runs execute in parallel, drawn from an external worker pool.
Next ==
    /\ \E p \in Procs : Start(p) \/ Step(p)
    /\ UNCHANGED <<hx, tools>>

Spec == Init /\ [][Next]_vars

\* One run at a time: a run starts only when every other has returned.
Quiescent == \A q \in Procs : ex[q].pc \in {"idle", "done"}

SeqNext ==
    /\ \E p \in Procs : (Quiescent /\ Start(p)) \/ Step(p)
    /\ UNCHANGED <<hx, tools>>

SeqSpec == Init /\ [][SeqNext]_vars

\* ----------------------------------------------- submissions and errors
\* job_ref as Path(job_ref).parts: under jobs/, absolute, outside jobs/,
\* with a ".." component.
JobRefs ==
    { <<"jobs", "brief.yaml">>, <<"/", "jobs", "brief.yaml">>,
      <<"corpus", "brief.yaml">>, <<"jobs", "..", "brief.yaml">> }

\* What the file at job_ref holds: a brief of the pipeline, YAML that does
\* not parse to a mapping, a brief without job_id, a brief whose job_type
\* names no pipeline.
BriefFiles == {"ok", "malformed", "no_job_id", "unknown_job_type"}

\* A call of the entry point of pipeline brief.pipe.
Submissions == [job_ref : JobRefs, file : BriefFiles, brief : Briefs]

\* _resolve_repo_path of instagram_copy and brand_compliance_score.
_resolve_repo_path(rel_path) ==
    IF rel_path # <<>> /\ rel_path[1] = "/"
    THEN "job_ref must be relative"
    ELSE IF \/ rel_path = <<>>
            \/ rel_path[1] # "jobs"
            \/ \E i \in 1..Len(rel_path) : rel_path[i] = ".."
    THEN "job_ref must resolve under jobs/"
    ELSE "ok"

\* BriefSpec.model_validate: job_id is required, job_type is any string.
BriefSpecValid(file) == file \in {"ok", "unknown_job_type"}

\* brand_compliance_score, lines 104-110.
BcsBriefValid(file) == file = "ok"

\* The call raises before anything is created.
Reject(p, error) ==
    /\ CanStart(p)
    /\ ex' = [ex EXCEPT ![p] = [@ EXCEPT !.pc = "done", !.ret = Raised(<<>>, error)]]
    /\ UNCHANGED <<fs, tmp>>

\* instagram_copy and brand_compliance_score raise between the creation of
\* the temp dir and collision resolution: the snapshots in written are in
\* the temp dir, which stays behind.
StartFails(p, b, written, error) ==
    /\ CanStart(p)
    /\ tmp' = Put(tmp, p, Dir(<<>>, [n \in written |-> b], EmptyFiles, {"inputs", "outputs"}))
    /\ ex' = [ex EXCEPT ![p] = [@ EXCEPT !.pc = "done", !.brief = b,
                                         !.ret = Raised(<<>>, error)]]
    /\ UNCHANGED fs

\* execute_instagram_copy_pipeline, lines 107-192: job_ref and brief are
\* validated, then the temp dir is created, brief, context and model_config
\* are written, then the doctrine is loaded (DoctrineLoader.load_doctrine
\* raises on an id off the allow-list, an unsafe component, a missing file).
IgSubmit(p, s) ==
    /\ s.brief.pipe = "ig"
    /\ IF _resolve_repo_path(s.job_ref) # "ok" THEN Reject(p, "job_ref")
       ELSE IF ~BriefSpecValid(s.file) THEN Reject(p, "brief_invalid")
       ELSE \/ IgStart(p, s.brief)
            \/ StartFails(p, s.brief, {}, "snapshot_io")
            \/ StartFails(p, s.brief, {"brief", "context", "model_config"}, "doctrine")

\* run_brand_compliance_score, lines 96-258: the doctrine is assembled after
\* three snapshots are written (lines 175-210), the prompt template is
\* loaded with load_doctrine after the doctrine snapshot (lines 223-245).
BcsSubmit(p, s) ==
    /\ s.brief.pipe = "bcs"
    /\ IF _resolve_repo_path(s.job_ref) # "ok" THEN Reject(p, "job_ref")
       ELSE IF ~BcsBriefValid(s.file) THEN Reject(p, "brief_invalid")
       ELSE \/ BcsStart(p, s.brief)
            \/ StartFails(p, s.brief, {}, "snapshot_io")
            \/ StartFails(p, s.brief, {"brief", "context", "model_config"}, "doctrine")
            \/ StartFails(p, s.brief, {"brief", "context", "model_config", "doctrine"}, "doctrine")

\* brand_optimization raises while writing a snapshot: its temp dir is
\* removed (finally), nothing else exists yet.
OptSnapshotFails(p, b) ==
    /\ \E r \in PriorArtifactRoots(PriorRunId) : has_required_outputs(Resolved(<<r, PriorRunId>>), b)
    /\ CanStart(p)
    /\ ex' = [ex EXCEPT ![p] = [@ EXCEPT !.pc = "done", !.brief = b,
                                         !.ret = Raised(<<>>, "snapshot_io")]]
    /\ UNCHANGED <<fs, tmp>>

\* run_brand_optimization, lines 120-263: repo_root / job_ref is used as it
\* is; the brief goes through BriefSpec.
OptSubmit(p, s) ==
    /\ s.brief.pipe = "opt"
    /\ IF ~BriefSpecValid(s.file) THEN Reject(p, "brief_invalid")
       ELSE \/ OptStart(p, s.brief)
            \/ OptSnapshotFails(p, s.brief)

Submit(p) == \E s \in Submissions : IgSubmit(p, s) \/ BcsSubmit(p, s) \/ OptSubmit(p, s)

\* The tree may lack the prior run, or hold it as a failed run: manifest
\* only, no outputs.
NoPriorFs == <<>>
FailedPriorFs ==
    Put(Put(<<>>, <<"bcs", PriorRunId>>,
            Dir(<< Manifest("bcs", PriorRunId, Sha256Prefix \o Digest(PriorBrief),
                            "failed", TRUE, HistoricalWriter) >>, EmptyFiles, EmptyFiles, {})),
        <<LegacyRoot, PriorRunId>>, Link(<<"bcs", PriorRunId>>))

ErrInit ==
    /\ fs \in {BaseFs, NoPriorFs, FailedPriorFs}
    /\ tmp = <<>>
    /\ ex = [p \in Procs |-> IdleEx]
    /\ hx = <<>>
    /\ mig = <<>> /\ idx = <<>> /\ trc = <<>> /\ swp = <<>> /\ chn = <<>>

IgRenameFailsKeepsRun(p) ==
    /\ ex[p].pc = "ig_rename"
    /\ fs' = Put(fs, ex[p].final_run_dir, tmp[p])
    /\ tmp' = Remove(tmp, p)
    /\ ex' = [ex EXCEPT ![p] = [@ EXCEPT !.pc = "done",
                                         !.ret = Raised(ex[p].run_id, "finalize")]]

\* Lines 625-631: temp_dir.rename raises for any reason (except Exception):
\* the temp dir is removed and RuntimeError raised.
IgRenameFails(p) ==
    /\ ex[p].pc = "ig_rename"
    /\ tmp' = Remove(tmp, p)
    /\ ex' = [ex EXCEPT ![p] = [@ EXCEPT !.pc = "done",
                                         !.ret = Raised(ex[p].run_id, "finalize")]]
    /\ UNCHANGED fs

ErrNext ==
    /\ \E p \in Procs : (Quiescent /\ Submit(p)) \/ Step(p) \/ IgRenameFails(p)
    /\ UNCHANGED <<hx, tools>>

\* Any call, valid or not, in a failing environment, one call at a time
\* (races between calls are the subject of Spec).
ErrSpec == ErrInit /\ [][ErrNext]_vars

\* ------------------------------------------------ suffix space exhausted
\* The brief whose suffix space is full, and the brief with the same
\* run_id_base and another inputs_hash whose manifests occupy it.
LimitBrief(pipe) == [pipe |-> pipe, v |-> 1]
OccupantBrief(pipe) == [pipe |-> pipe, v |-> 2]

\* run_id_base and run_id_base-2 ... run_id_base-1000 of LimitBrief.
LimitRunIds(pipe) ==
    {HistoricalRunId(LimitBrief(pipe))}
    \cup {SuffixedRunId(HistoricalRunId(LimitBrief(pipe)), suffix) : suffix \in FirstSuffix..MaxSuffix}

\* A finalized directory at run_id whose manifest records the inputs_hash of
\* OccupantBrief.
Occupant(pipe, run_id) ==
    Dir(<< Manifest(pipe, run_id, compute_inputs_hash(OccupantBrief(pipe)),
                    "succeeded", FALSE, HistoricalWriter) >>,
        Snapshots(OccupantBrief(pipe)), EmptyFiles, {"inputs", "outputs"})

\* The tree with every candidate of LimitBrief(pipe) occupied.
FullFs(pipe) ==
    [path \in DOMAIN BaseFs \cup {<<pipe, run_id>> : run_id \in LimitRunIds(pipe)} |->
        IF path \in DOMAIN BaseFs THEN BaseFs[path] ELSE Occupant(pipe, path[2])]

LimitInit ==
    /\ fs \in {FullFs(pipe) : pipe \in Pipes}
    /\ tmp = <<>>
    /\ ex = [p \in Procs |-> IdleEx]
    /\ hx = <<>>
    /\ mig = <<>> /\ idx = <<>> /\ trc = <<>> /\ swp = <<>> /\ chn = <<>>

\* One run at a time against a tree whose suffix space is full for a brief.
LimitSpec == LimitInit /\ [][SeqNext]_vars

\* ------------------------------------------- snapshot bytes and hashes
\* A byte string is a record: its encoding, the value it encodes and, for a
\* brief.yaml, its layout (comments, key order, whitespace).  Two byte
\* strings are equal exactly when the three agree.
Encodings == <<"yaml", "indent2", "compact", "raw">>
EncIndex(enc) == CHOOSE k \in 1..Len(Encodings) : Encodings[k] = enc
Layouts == {0, 1}
Bytes(enc, body, layout) == [enc |-> enc, body |-> body, layout |-> layout]

\* write_json: json.dumps(data, sort_keys=True, ensure_ascii=False, indent=2)
\* with a trailing newline; the bytes a read_bytes() of the file returns.
write_json(data) == Bytes("indent2", data, 0)

\* json.dumps(obj, sort_keys=True).encode("utf-8")
json_dumps(data) == Bytes("compact", data, 0)

\* yaml.safe_load: the value, whatever the layout of the file.
_read_yaml(bytes) == bytes.body

\* SHA-256 of a byte string as a table that is injective on the byte strings
\* of the model, also in its first 32 hex characters (no collisions): the
\* code of the bytes in hexadecimal, least significant digit first.
HexChars == <<"0", "1", "2", "3", "4", "5", "6", "7", "8", "9", "a", "b", "c", "d", "e", "f">>
DigestWidth == 2
ByteCode(data) == (EncIndex(data.enc) - 1) + Len(Encodings) * (data.layout + 2 * data.body)

HexLE(n) ==
    [i \in 1..HexLen |->
        IF i <= DigestWidth THEN HexChars[((n \div (16 ^ (i - 1))) % 16) + 1] ELSE "0"]

sha256_bytes(data) == Sha256Prefix \o HexLE(ByteCode(data))

HexVal(c) == CHOOSE d \in 0..15 : HexChars[d + 1] = c

\* The value a "sha256:..." string stands for in a JSON object holding it.
DigestCode(hash) ==
    HexVal(hash[Sha256PrefixLen + 1]) + 16 * HexVal(hash[Sha256PrefixLen + 2])

\* sorted(snapshot_hashes.items())
SortedNames ==
    <<"brief", "context", "doctrine", "model_config", "prior_artifact", "prompt_template">>

\* SHA-256 of canonical_json(dict(sorted_items)), injective in the keys
\* present and in their values: per key in sorted order a mark and the
\* significant characters of its hash.
InputsDigest(snapshot_hashes) ==
    [i \in 1..HexLen |->
        LET k == ((i - 1) \div (DigestWidth + 1)) + 1
            j == (i - 1) % (DigestWidth + 1)
        IN  IF k > Len(SortedNames) THEN "0"
            ELSE IF SortedNames[k] \notin DOMAIN snapshot_hashes THEN "0"
            ELSE IF j = 0 THEN "1"
            ELSE snapshot_hashes[SortedNames[k]][Sha256PrefixLen + j]]

\* compute_inputs_hash on the mapping snapshot name -> snapshot hash.
inputs_hash_of(snapshot_hashes) == sha256_text(InputsDigest(snapshot_hashes))

\* What an execution finds: the brief.yaml (value and layout), the corpus
\* (context), the LLM_* environment (model), the doctrine and template
\* files, and the prior run's required output.
Contents == 0..(NumVariants - 1)
WorldFields == {"brief", "layout", "context", "model", "doctrine", "template", "prior_output"}
UsedFields(pipe) ==
    CASE pipe = "ig" -> {"brief", "layout", "context", "model", "doctrine"}
      [] pipe = "bcs" -> {"brief", "layout", "context", "model", "doctrine", "template"}
      [] OTHER -> {"brief", "layout", "context", "prior_output"}

Worlds(pipe) ==
    {w \in [brief : Contents, layout : Layouts, context : Contents, model : Contents,
            doctrine : Contents, template : Contents, prior_output : Contents] :
        \A f \in WorldFields \ UsedFields(pipe) : w[f] = 0}

BriefYaml(w) == Bytes("yaml", w.brief, w.layout)

\* instagram_copy, lines 132-192: each snapshot is written with write_json
\* and hashed from the bytes read back from the file.
IgSnapshotFiles(w) ==
    [n \in SnapshotNames("ig") |->
        write_json(CASE n = "brief" -> _read_yaml(BriefYaml(w))
                     [] n = "context" -> w.context
                     [] n = "model_config" -> w.model
                     [] OTHER -> w.doctrine)]

IgSnapshotHashes(w, files) == [n \in DOMAIN files |-> sha256_bytes(files[n])]

\* brand_compliance_score, lines 126-255.
BcsSnapshotFiles(w) ==
    [n \in SnapshotNames("bcs") |->
        write_json(CASE n = "brief" -> _read_yaml(BriefYaml(w))
                     [] n = "context" -> w.context
                     [] n = "model_config" -> w.model
                     [] n = "doctrine" -> w.doctrine
                     [] OTHER -> w.template)]

BcsSnapshotHashesNoTemplate(w, files) ==
    [n \in DOMAIN files \ {"prompt_template"} |-> sha256_bytes(files[n])]

BcsSnapshotHashes(w, files) == [n \in DOMAIN files |-> sha256_bytes(files[n])]

\* brand_optimization, lines 222-229: the hash of every required output of
\* the prior run.
PriorOutputs(w) == [o \in RequiredOutputs |-> Bytes("raw", w.prior_output, 0)]
prior_output_hashes(w) == [o \in RequiredOutputs |-> sha256_bytes(PriorOutputs(w)[o])]

PriorArtifactWithoutHashes(hashes) == 0

\* Lines 231-243: the prior_artifact snapshot object; prior_run_id,
\* prior_stage, prior_job_id, prior_manifest and required_outputs are the
\* same in every execution here, prior_output_hashes is what varies.
prior_artifact_snapshot(hashes) == DigestCode(hashes["compliance_scores.json"])

\* brand_optimization, lines 181-248: the files written under inputs/.
OptSnapshotFiles(w) ==
    [n \in SnapshotNames("opt") |->
        write_json(CASE n = "brief" -> _read_yaml(BriefYaml(w))
                     [] n = "context" -> w.context
                     [] n = "model_config" -> 0
                     [] n = "doctrine" -> 0
                     [] OTHER -> prior_artifact_snapshot(prior_output_hashes(w)))]

\* brand_optimization, lines 181-259: brief is hashed from the bytes of
\* brief.yaml, model_config and prior_artifact from json.dumps of the
\* object, context and doctrine from the bytes of the file.
OptSnapshotHashes(w, files) ==
    [n \in DOMAIN files |->
        CASE n = "brief" -> sha256_bytes(BriefYaml(w))
          [] n = "model_config" -> sha256_bytes(json_dumps(0))
          [] n = "prior_artifact" ->
                sha256_bytes(json_dumps(prior_artifact_snapshot(prior_output_hashes(w))))
          [] OTHER -> sha256_bytes(files[n])]

\* Two executions of one pipeline, the second after the first; what the
\* second finds differs from what the first found in at most one place.
Execs == {1, 2}

NewExec(pipe, w) ==
    [pc |-> "snapshots", pipe |-> pipe, world |-> w, temp_inputs |-> <<>>,
     snapshot_hashes |-> <<>>, prior_output_hashes |-> <<>>, inputs_hash |-> <<>>,
     run_id |-> <<>>, run_inputs |-> <<>>, manifest |-> <<>>]

HashInit ==
    /\ fs = <<>>
    /\ tmp = <<>>
    /\ ex = [p \in Procs |-> IdleEx]
    /\ \E pipe \in Pipes : \E w1, w2 \in Worlds(pipe) :
        /\ Cardinality({f \in WorldFields : w1[f] # w2[f]}) <= 1
        /\ hx = [i \in Execs |-> NewExec(pipe, IF i = 1 THEN w1 ELSE w2)]
    /\ mig = <<>> /\ idx = <<>> /\ trc = <<>> /\ swp = <<>> /\ chn = <<>>

ExecTurn(i, pipe, pc) ==
    /\ hx[i].pc = pc
    /\ hx[i].pipe = pipe
    /\ \A j \in Execs : j < i => hx[j].pc = "done"

IgSnapshots(i) ==
    /\ ExecTurn(i, "ig", "snapshots")
    /\ LET files == IgSnapshotFiles(hx[i].world)
       IN  hx' = [hx EXCEPT ![i] = [@ EXCEPT !.pc = "hash", !.temp_inputs = files,
                      !.snapshot_hashes = IgSnapshotHashes(hx[i].world, files)]]

BcsSnapshots(i) ==
    /\ ExecTurn(i, "bcs", "snapshots")
    /\ LET files == BcsSnapshotFiles(hx[i].world)
       IN  hx' = [hx EXCEPT ![i] = [@ EXCEPT !.pc = "hash", !.temp_inputs = files,
                      !.snapshot_hashes = BcsSnapshotHashes(hx[i].world, files)]]

OptSnapshots(i) ==
    /\ ExecTurn(i, "opt", "snapshots")
    /\ LET files == OptSnapshotFiles(hx[i].world)
       IN  hx' = [hx EXCEPT ![i] = [@ EXCEPT !.pc = "hash", !.temp_inputs = files,
                      !.prior_output_hashes = prior_output_hashes(hx[i].world),
                      !.snapshot_hashes = OptSnapshotHashes(hx[i].world, files)]]

\* inputs_hash = compute_inputs_hash(snapshot_hashes);
\* base_run_id = derive_run_id(inputs_hash); no directory is in the way.
HashInputs(i) ==
    /\ \E pipe \in Pipes : ExecTurn(i, pipe, "hash")
    /\ LET inputs_hash == inputs_hash_of(hx[i].snapshot_hashes)
       IN  hx' = [hx EXCEPT ![i] = [@ EXCEPT !.pc = "finalize", !.inputs_hash = inputs_hash,
                      !.run_id = derive_run_id(inputs_hash, <<>>)]]

\* The snapshot files reach the run directory as they are (rename of the
\* temp dir, or shutil.copy2 of each file) and the manifest is written; the
\* exec number stands for queue_job_id, started_at, trace id and temp name.
FinalizeRun(i) ==
    /\ \E pipe \in Pipes : ExecTurn(i, pipe, "finalize")
    /\ hx' = [hx EXCEPT ![i] = [@ EXCEPT !.pc = "done", !.run_inputs = hx[i].temp_inputs,
                   !.manifest = [inputs_hash |-> hx[i].inputs_hash, run_id |-> hx[i].run_id,
                                 queue_job_id |-> i, started_at |-> i]]]

HashNext ==
    /\ \E i \in Execs :
        \/ IgSnapshots(i) \/ BcsSnapshots(i) \/ OptSnapshots(i)
        \/ HashInputs(i) \/ FinalizeRun(i)
    /\ UNCHANGED <<fs, tmp, ex, tools>>

HashSpec == HashInit /\ [][HashNext]_vars

\* ------------------------------------------------------ schema migration
\* Schema versions, in version.parse order.
Versions == <<"1.0.0", "1.1.0", "1.2.0", "1.3.0", "2.0.0">>
VersionRank(v) == CHOOSE i \in 1..Len(Versions) : Versions[i] = v

\* target_version = None
NoTarget == "None"

\* A migration of the registry: its version pair and its class.
\* Migration_1_0_to_1_1, Migration_1_1_to_1_2 and Migration_1_0_to_1_2 are
\* built in, the others are registered by the caller: a subclass that bumps
\* the version, the base class (transform raises NotImplementedError), a
\* subclass whose validate_before rejects, a subclass whose transform leaves
\* schema_version alone.
MigrationOf(from_version, to_version, class) ==
    [from_version |-> from_version, to_version |-> to_version, class |-> class]

BuiltinMigrations ==
    << MigrationOf("1.0.0", "1.1.0", "Migration_1_0_to_1_1"),
       MigrationOf("1.1.0", "1.2.0", "Migration_1_1_to_1_2"),
       MigrationOf("1.0.0", "1.2.0", "Migration_1_0_to_1_2") >>

CustomClasses == {"bumps", "Migration", "rejects", "keeps_version"}

\* MigrationRegistry: the built-in migrations, then what the caller registers.
Registries ==
    {BuiltinMigrations}
    \cup {Append(BuiltinMigrations, MigrationOf("1.2.0", "1.3.0", class)) : class \in CustomClasses}

\* manifest_data: a JSON object, key -> value.
EmptySnapshots == {}
DefaultChainMetadata == [is_chainable_stage |-> FALSE, prior_stages |-> <<>>]

\* A manifest written before schema versions carried input snapshots.
LegacyManifestData ==
    [job_id |-> "job", run_id |-> "run", status |-> "succeeded",
     brief_hash |-> "sha256:brief"]

\* The manifests on disk: legacy ones with or without schema_version, and
\* the ones the pipelines write (schema_version 1.1.0, inputs_hash,
\* input_snapshots).
StoredManifestData ==
    { LegacyManifestData,
      Put(LegacyManifestData, "schema_version", "1.0.0"),
      Put(Put(Put(LegacyManifestData, "schema_version", "1.1.0"),
              "inputs_hash", "sha256:inputs"),
          "input_snapshots", {<<"brief", "sha256:brief">>, <<"context", "sha256:context">>}) }

\* A JSON file: the object it holds and how it is laid out (write_json ends
\* with a newline, json.dump does not).
JsonFile(layout, data) == [layout |-> layout, data |-> data]
NoFile == [layout |-> "missing", data |-> <<>>]

json_load(file) == file.data

\* json.dump(manifest_data, f, indent=2, sort_keys=True, ensure_ascii=False)
json_dump(manifest_data) == JsonFile("json.dump", manifest_data)

\* backup_path.write_text(manifest_path.read_text()): the text of the file.
read_text(file) == file

\* manifest_data.get("schema_version", "1.0.0")
schema_version_of(manifest_data) ==
    IF "schema_version" \in DOMAIN manifest_data THEN manifest_data.schema_version ELSE "1.0.0"

\* sha256_bytes(json.dumps(manifest_data, sort_keys=True).encode()), taken
\* to be collision-free.
checksum(manifest_data) == <<"sha256", manifest_data>>

\* MigrationRegistry.get_latest_version
get_latest_version(registry) ==
    LET versions == {registry[i].from_version : i \in 1..Len(registry)}
                    \cup {registry[i].to_version : i \in 1..Len(registry)}
    IN  CHOOSE v \in versions : \A w \in versions : VersionRank(w) <= VersionRank(v)

\* One pass of the BFS loop body over the registry, from migration i on.
RECURSIVE ScanMigrations(_, _, _, _, _, _, _)
ScanMigrations(registry, i, current_version, path, queue, visited, to_version) ==
    IF i > Len(registry)
    THEN [found |-> <<>>, queue |-> queue, visited |-> visited]
    ELSE IF registry[i].from_version # current_version \/ registry[i].to_version \in visited
    THEN ScanMigrations(registry, i + 1, current_version, path, queue, visited, to_version)
    ELSE IF registry[i].to_version = to_version
    THEN [found |-> Append(path, i), queue |-> queue, visited |-> visited]
    ELSE ScanMigrations(registry, i + 1, current_version, path,
                        Append(queue, <<registry[i].to_version, Append(path, i)>>),
                        visited \cup {registry[i].to_version}, to_version)

RECURSIVE BreadthFirst(_, _, _, _)
BreadthFirst(registry, queue, visited, to_version) ==
    IF queue = <<>> THEN <<>>
    ELSE LET scan == ScanMigrations(registry, 1, Head(queue)[1], Head(queue)[2],
                                    Tail(queue), visited, to_version)
         IN  IF scan.found # <<>> THEN scan.found
             ELSE BreadthFirst(registry, scan.queue, scan.visited, to_version)

\* MigrationRegistry.find_migration_path: the migrations to apply, as
\* indices into the registry; <<>> when there is no path.
find_migration_path(registry, from_version, to_version) ==
    LET direct == {i \in 1..Len(registry) : /\ registry[i].from_version = from_version
                                             /\ registry[i].to_version = to_version}
    IN  IF direct # {} THEN << CHOOSE i \in direct : \A j \in direct : j <= i >>
        ELSE BreadthFirst(registry, << <<from_version, <<>> >> >>, {from_version}, to_version)

\* Migration.validate_before
validate_before(migration, manifest_data) ==
    /\ migration.class # "rejects"
    /\ schema_version_of(manifest_data) = migration.from_version

TransformRemovesHashes(migration, manifest_data) ==
    [k \in (DOMAIN manifest_data \ {"brief_hash"}) \cup {"schema_version"} |->
        IF k = "schema_version" THEN migration.to_version ELSE manifest_data[k]]

\* transform of each migration class.
transform(migration, manifest_data) ==
    CASE migration.class = "Migration_1_0_to_1_1" ->
            Put(Put(Put(manifest_data, "input_snapshots", EmptySnapshots),
                    "inputs_hash", "null"),
                "schema_version", "1.1.0")
      [] migration.class = "Migration_1_1_to_1_2" ->
            Put(Put(manifest_data, "chain_metadata", DefaultChainMetadata),
                "schema_version", "1.2.0")
      [] migration.class = "Migration_1_0_to_1_2" ->
            Put(Put(Put(Put(manifest_data, "input_snapshots", EmptySnapshots),
                        "inputs_hash", "null"),
                    "chain_metadata", DefaultChainMetadata),
                "schema_version", "1.2.0")
      [] migration.class = "keeps_version" -> manifest_data
      [] OTHER -> Put(manifest_data, "schema_version", migration.to_version)

\* Migration.validate_after
validate_after(migration, manifest_data) ==
    /\ "schema_version" \in DOMAIN manifest_data
    /\ manifest_data.schema_version = migration.to_version

\* The loop over migration_path, from position i on: the transformed
\* manifest_data, or the first error.
RECURSIVE ApplyMigrations(_, _, _, _)
ApplyMigrations(registry, migration_path, i, manifest_data) ==
    IF i > Len(migration_path) THEN [error |-> "", manifest_data |-> manifest_data]
    ELSE LET migration == registry[migration_path[i]]
         IN  IF ~validate_before(migration, manifest_data)
             THEN [error |-> "validate_before", manifest_data |-> manifest_data]
             ELSE IF migration.class = "Migration"
             THEN [error |-> "Migration failed", manifest_data |-> manifest_data]
             ELSE IF ~validate_after(migration, transform(migration, manifest_data))
             THEN [error |-> "validate_after", manifest_data |-> manifest_data]
             ELSE ApplyMigrations(registry, migration_path, i + 1,
                                  transform(migration, manifest_data))

MigrationRecordOfTarget(registry, migration_path, current_version, target_version, before, after) ==
    [from_version |-> target_version, to_version |-> target_version,
     changes |-> [i \in 1..Len(migration_path) |-> registry[migration_path[i]].class],
     checksum_before |-> checksum(before), checksum_after |-> checksum(after)]

\* The migration_history record; applied_at is left out.
MigrationRecord(registry, migration_path, current_version, target_version, before, after) ==
    [from_version |-> current_version, to_version |-> target_version,
     changes |-> [i \in 1..Len(migration_path) |-> registry[migration_path[i]].class],
     checksum_before |-> checksum(before), checksum_after |-> checksum(after)]

AppendHistory(manifest_data, record) ==
    Put(manifest_data, "migration_history",
        IF "migration_history" \in DOMAIN manifest_data
        THEN Append(manifest_data.migration_history, record)
        ELSE <<record>>)

\* (success, details) of migrate_manifest.
Details(success, current_version, target_version, migrations_applied, error, backup_created) ==
    [success |-> success, current_version |-> current_version,
     target_version |-> target_version, migrations_applied |-> migrations_applied,
     error |-> error, backup_created |-> backup_created]
NoDetails == Details(FALSE, "", "", <<>>, "", FALSE)

AlreadyAtTarget == <<"Already at target version">>

AlwaysDifferent(current_version, target_version) == FALSE

\* Lines 388-391: nothing to do at the target version.
at_target_version(current_version, target_version) == current_version = target_version

MaxCalls == 2

NewMig(file, registry) ==
    [manifest |-> file, backup |-> NoFile, registry |-> registry, pc |-> "idle",
     calls |-> 0, dry_run |-> FALSE, pending |-> <<>>, details |-> NoDetails]

MigInit ==
    /\ fs = <<>> /\ tmp = <<>>
    /\ ex = [p \in Procs |-> IdleEx]
    /\ hx = <<>> /\ idx = <<>> /\ trc = <<>> /\ swp = <<>> /\ chn = <<>>
    /\ \E data \in StoredManifestData : \E registry \in Registries :
          mig = NewMig(JsonFile("write_json", data), registry)

WritesAlways(dry_run) == TRUE

\* Line 439: if not dry_run.
writes_to_disk(dry_run) == ~dry_run

MigrateReturnsWithBackup(dry_run, details) ==
    mig' = [mig EXCEPT !.calls = @ + 1, !.dry_run = dry_run, !.details = details,
                       !.backup = read_text(mig.manifest)]

\* The call returns without writing.
MigrateReturns(dry_run, details) ==
    mig' = [mig EXCEPT !.calls = @ + 1, !.dry_run = dry_run, !.details = details]

\* MigrationEngine.migrate_manifest up to the write (lines 377-437): load,
\* early return at the target version, path finding, transforms with their
\* validations, history record.
MigrateManifest(target_version, dry_run) ==
    /\ mig.pc = "idle"
    /\ mig.calls < MaxCalls
    /\ LET manifest_data == json_load(mig.manifest)
           current_version == schema_version_of(manifest_data)
           target == IF target_version = NoTarget
                     THEN get_latest_version(mig.registry) ELSE target_version
           migration_path == find_migration_path(mig.registry, current_version, target)
           applied == ApplyMigrations(mig.registry, migration_path, 1, manifest_data)
           record == MigrationRecord(mig.registry, migration_path, current_version, target,
                                     manifest_data, applied.manifest_data)
           migrated == AppendHistory(applied.manifest_data, record)
           names == [i \in 1..Len(migration_path) |-> mig.registry[migration_path[i]].class]
       IN  IF at_target_version(current_version, target)
           THEN MigrateReturns(dry_run, Details(TRUE, current_version, target,
                                                AlreadyAtTarget, "", FALSE))
           ELSE IF migration_path = <<>>
           THEN MigrateReturns(dry_run, Details(FALSE, current_version, target, <<>>,
                                                "No migration path", FALSE))
           ELSE IF applied.error # ""
           THEN MigrateReturns(dry_run, Details(FALSE, current_version, target, <<>>,
                                                applied.error, FALSE))
           ELSE IF ~writes_to_disk(dry_run)
           THEN MigrateReturns(dry_run, Details(TRUE, current_version, target, names,
                                                "", FALSE))
           ELSE mig' = [mig EXCEPT !.pc = "backup", !.calls = @ + 1, !.dry_run = dry_run,
                                   !.pending = migrated,
                                   !.details = Details(TRUE, current_version, target,
                                                       names, "", FALSE)]

WriteManifestFirst ==
    /\ mig.pc = "backup"
    /\ mig' = [mig EXCEPT !.pc = "write", !.manifest = json_dump(mig.pending)]

\* Lines 441-443: the backup sibling gets the text of manifest.json.
WriteBackup ==
    /\ mig.pc = "backup"
    /\ mig' = [mig EXCEPT !.pc = "write", !.backup = read_text(mig.manifest)]

\* Lines 445-451: manifest.json is overwritten with the migrated record.
WriteManifest ==
    /\ mig.pc = "write"
    /\ mig' = [mig EXCEPT !.pc = "idle", !.manifest = json_dump(mig.pending),
                          !.pending = <<>>, !.details = [@ EXCEPT !.backup_created = TRUE]]

MigNext ==
    /\ \/ \E target_version \in {Versions[i] : i \in 1..Len(Versions)} \cup {NoTarget} :
            \E dry_run \in BOOLEAN : MigrateManifest(target_version, dry_run)
       \/ WriteBackup
       \/ WriteManifest
    /\ UNCHANGED <<fs, tmp, ex, hx, idx, trc, swp, chn>>

\* Calls of migrate_manifest on one manifest, one after the other.
MigSpec == MigInit /\ [][MigNext]_vars

\* ------------------------------------------- reindexing and verification
\* str.isdigit() of a non-empty string of decimal digits, and int() of it.
isdigit(s) == s # <<>> /\ \A i \in 1..Len(s) : \E d \in 1..10 : DigitChars[d] = s[i]

RECURSIVE int(_)
int(s) ==
    IF s = <<>> THEN 0
    ELSE 10 * int(SubSeq(s, 1, Len(s) - 1))
         + (CHOOSE d \in 0..9 : DigitChars[d + 1] = s[Len(s)])

\* reindex_artifacts._discover_run_dirs: the directories below every job
\* root, and the directories and symlinks below the legacy root.
_discover_run_dirs ==
    {path \in DOMAIN fs : path[1] # LegacyRoot /\ fs[path].kind = "dir"}
        \cup {path \in DOMAIN fs : path[1] = LegacyRoot}

SourceOf(path) == IF path[1] = LegacyRoot THEN "legacy" ELSE "canonical"

\* _discover_manifests: symlinks whose target is gone (they are unlinked),
\* run directories without manifest.json (a warning only) and the rest.
orphaned_symlinks == {path \in _discover_run_dirs : IsSymlink(path) /\ ~Exists(path)}

missing_manifest ==
    {path \in _discover_run_dirs \ orphaned_symlinks : fs[Resolved(path)].manifest = <<>>}

valid_manifests == _discover_run_dirs \ (orphaned_symlinks \cup missing_manifest)

\* json.loads of <run_dir>/manifest.json.
_load_manifest(path) == fs[Resolved(path)].manifest[1]

RowKey(path) == <<_load_manifest(path).job_id, _load_manifest(path).run_id>>

\* _choose_preferred_manifest over the candidates of one key: canonical
\* before legacy, then the smaller path string (below one root a run id
\* sorts before the longer ids it is a prefix of).
_choose_preferred_manifest(candidates) ==
    LET canonical == {c \in candidates : SourceOf(c) = "canonical"}
        pool == IF canonical # {} THEN canonical ELSE candidates
    IN  CHOOSE c \in pool : \A other \in pool : Len(c[2]) <= Len(other[2])

deduped ==
    [key \in {RowKey(c) : c \in valid_manifests} |->
        _choose_preferred_manifest({c \in valid_manifests : RowKey(c) = key})]

\* Whether the file stored under inputs/ for snapshot `name` has the sha256
\* the manifest records for it. A manifest records the hashes its
\* inputs_hash was computed from; instagram_copy and brand_compliance_score
\* hash the stored file, brand_optimization hashes other bytes for brief,
\* model_config and prior_artifact (lines 181-259).
RecordedHashMatches(manifest, name, content) ==
    /\ compute_inputs_hash(content) = manifest.inputs_hash
    /\ ~(manifest.job_id = "opt" /\ name \in {"brief", "model_config", "prior_artifact"})

\* The snapshots a manifest declares in input_snapshots.
DeclaredSnapshots(manifest) == SnapshotNames(manifest.job_id)

\* _validate_manifest_integrity, lines 244-256: the run_id rule.
reindex_run_id_errors(manifest) ==
    LET base_run_id == derive_run_id(manifest.inputs_hash, <<>>)
        run_id == manifest.run_id
        suffix == SubSeq(run_id, Len(base_run_id) + 2, Len(run_id))
    IN  IF run_id = base_run_id THEN {}
        ELSE IF StartsWith(run_id, base_run_id \o <<"-">>)
        THEN IF ~isdigit(suffix) \/ int(suffix) < 2
             THEN {"invalid deterministic suffix in run_id"}
             ELSE IF derive_run_id(manifest.inputs_hash, suffix) # run_id
                  THEN {"run_id derivation mismatch"}
                  ELSE {}
        ELSE {"run_id does not derive from inputs_hash"}

\* _validate_manifest_integrity: the errors of the manifest at path.
_validate_manifest_integrity(path) ==
    LET manifest == _load_manifest(path)
        inputs == fs[Resolved(path)].inputs
        declared == DeclaredSnapshots(manifest)
        present == declared \cap DOMAIN inputs
        snapshot_errors ==
            (IF present # declared THEN {"missing snapshot"} ELSE {})
            \cup (IF \E n \in present : ~RecordedHashMatches(manifest, n, inputs[n])
                  THEN {"sha256 mismatch"} ELSE {})
        derivation_errors ==
            IF present = declared
            THEN (IF \E n \in present : compute_inputs_hash(inputs[n]) # manifest.inputs_hash
                  THEN {"inputs_hash mismatch"} ELSE {})
                 \cup reindex_run_id_errors(manifest)
            ELSE {}
    IN  IF manifest.inputs_hash = <<>> THEN {"missing inputs_hash"}
        ELSE snapshot_errors \cup derivation_errors

\* The result of a reindex command or of a verify_run_determinism call.
IndexResult(verify, rows, verify_failures, missing, orphaned, exit_code) ==
    [kind |-> "reindex", verify |-> verify, rows |-> rows, verify_failures |-> verify_failures,
     missing_manifest |-> missing, orphaned_symlinks |-> orphaned,
     exit_code |-> exit_code, run_dir |-> <<>>, checks |-> <<>>, valid |-> FALSE]

VerifyResult(run_dir, checks) ==
    [kind |-> "verify_run", verify |-> FALSE, rows |-> <<>>, verify_failures |-> {},
     missing_manifest |-> {}, orphaned_symlinks |-> {}, exit_code |-> 0,
     run_dir |-> run_dir, checks |-> checks,
     valid |-> \A c \in DOMAIN checks : checks[c]]

\* reindex(artifacts_root, verify), lines 266-375.
Reindex(verify) ==
    LET failing == IF verify
                   THEN {key \in DOMAIN deduped :
                            _validate_manifest_integrity(deduped[key]) # {}}
                   ELSE {}
        rows == [key \in DOMAIN deduped \ failing |->
                    [artifact_dir |-> deduped[key],
                     manifest_json |-> _load_manifest(deduped[key])]]
        exit_code == IF verify /\ (failing # {} \/ orphaned_symlinks # {}) THEN 1 ELSE 0
    IN  /\ idx = <<>>
        /\ idx' = IndexResult(verify, rows, {deduped[key] : key \in failing},
                              missing_manifest, orphaned_symlinks, exit_code)
        /\ fs' = [path \in DOMAIN fs \ orphaned_symlinks |-> fs[path]]
        /\ UNCHANGED <<tmp, ex, hx, mig, trc, swp, chn>>

\* DeterminismVerifier.verify_run_determinism, check 4 (lines 192-217):
\* the recorded run_id must equal derive_run_id(inputs_hash).
run_id_valid(manifest) ==
    /\ manifest.inputs_hash # <<>>
    /\ derive_run_id(manifest.inputs_hash, <<>>) = manifest.run_id

\* DeterminismVerifier.verify_run_determinism(run_dir) on a run directory
\* that holds a manifest.
VerifyRunDeterminism(run_dir) ==
    LET manifest == _load_manifest(run_dir)
        inputs == fs[run_dir].inputs
        declared == DeclaredSnapshots(manifest)
        checks ==
            [c \in {"snapshots_present", "snapshot_hashes", "inputs_hash",
                    "run_id", "job_id_governance"} |->
                CASE c = "snapshots_present" ->
                        "inputs" \in fs[run_dir].subdirs /\ declared \subseteq DOMAIN inputs
                  [] c = "snapshot_hashes" ->
                        \A n \in declared \cap DOMAIN inputs :
                            RecordedHashMatches(manifest, n, inputs[n])
                  [] c = "inputs_hash" -> manifest.inputs_hash # <<>>
                  [] c = "run_id" -> run_id_valid(manifest)
                  [] OTHER -> "brief" \in DOMAIN inputs
                              /\ JobId(inputs["brief"]) = manifest.job_id]
    IN  /\ idx = <<>>
        /\ run_dir \in valid_manifests
        /\ SourceOf(run_dir) = "canonical"
        /\ idx' = VerifyResult(run_dir, checks)
        /\ UNCHANGED <<fs, tmp, ex, hx, mig, trc, swp, chn>>

\* Runs one at a time; at any moment an operator reindexes the tree or
\* verifies one run directory.
AuditNext ==
    \/ /\ idx = <<>>
       /\ \E p \in Procs : (Quiescent /\ Start(p)) \/ Step(p)
       /\ UNCHANGED <<hx, tools>>
    \/ \E verify \in BOOLEAN : Reindex(verify)
    \/ \E run_dir \in DOMAIN fs : VerifyRunDeterminism(run_dir)

AuditSpec == Init /\ [][AuditNext]_vars

\* --------------------------------------------------------------- tracing
\* get_langfuse(): None unless Langfuse is configured.
LangfuseStates == {"None", "enabled"}
NoTraceId == "None"
TraceId == "trace-id"

\* Where the statements of a job body outside tracing can raise: nowhere,
\* while the prompt is formatted (before the span is opened), in the model
\* call (span open), or while the outputs are written (span ended).
BodyFailures == {"none", "prompt", "generation", "outputs"}

\* The pipelines that call the Langfuse client; brand_optimization imports
\* get_langfuse and never calls it.
Traced(pipe) == pipe \in {"ig", "bcs"}

TracingBeforeResolve(pipe) ==
    CASE pipe = "ig" -> "ig_resolve" [] pipe = "bcs" -> "bcs_resolve" [] OTHER -> "none"

\* The position of a run at which the trace is started: after collision
\* resolution and, in brand_compliance_score, the legacy alias
\* (instagram_copy line 391, brand_compliance_score line 402).
TracingPoint(pipe) ==
    CASE pipe = "ig" -> "ig_body" [] pipe = "bcs" -> "bcs_body" [] OTHER -> "none"

\* The tracing of the run in flight: the calls made on the client and on
\* the objects it returned, each with the run_id the run had at the call.
NoTrace ==
    [proc |-> 0, started |-> FALSE, lf |-> "None", trace_id |-> NoTraceId,
     calls |-> <<>>, failure |-> "none", body_done |-> FALSE]

TraceCall(call, run_id, raised) == [call |-> call, run_id |-> run_id, raised |-> raised]

\* LangfuseClient.trace, lines 95-127: a no-op trace (id None) when the
\* SDK call raises.
lf_trace(raised) == IF raised THEN NoTraceId ELSE TraceId

\* LangfuseClient.span, lines 129-157: a no-op span without a trace id or
\* when the SDK call raises, else the SDK's span.
lf_span(trace_id, raised) == IF trace_id = NoTraceId \/ raised THEN "noop" ELSE "real"

\* instagram_copy lines 446-449 and brand_compliance_score lines 440-443:
\* the span object of the body, "None" when no span is opened.
span_gen(pipe, lf, trace_id, raised) ==
    IF lf = "None" THEN "None"
    ELSE IF pipe = "bcs" /\ trace_id = NoTraceId THEN "None"
    ELSE lf_span(trace_id, raised)

\* span_gen.end(...), instagram_copy line 518 and brand_compliance_score
\* line 485: a call on the span object itself; _NoOpSpan.end passes, what
\* the SDK's span raises propagates into the body.
end_raises_into_body(span, raised) == span = "real" /\ raised

\* Lines 390-399 (402-410): the trace is started with the run_id as input.
StartTrace(p) ==
    /\ ex[p].pc = TracingPoint(ex[p].brief.pipe)
    /\ ~(trc.started /\ trc.proc = p)
    /\ \E lf \in LangfuseStates : \E raised \in BOOLEAN :
        /\ raised => lf = "enabled"
        /\ trc' = [NoTrace EXCEPT
                     !.proc = p, !.started = TRUE, !.lf = lf,
                     !.trace_id = IF lf = "enabled" THEN lf_trace(raised) ELSE NoTraceId,
                     !.calls = IF lf = "enabled"
                               THEN <<TraceCall("trace", ex[p].run_id, raised)>>
                               ELSE <<>>]
    /\ UNCHANGED <<fs, tmp, ex>>

\* The body of a traced run: the span is opened after the prompt is
\* formatted and ended after the model call; the body fails when one of
\* its statements raises.
TracedBody(p) ==
    /\ ex[p].pc \in {"ig_body", "bcs_body"}
    /\ trc.started /\ trc.proc = p /\ ~trc.body_done
    /\ \E failure \in BodyFailures : \E span_raised \in BOOLEAN : \E end_raised \in BOOLEAN :
        LET pipe == ex[p].brief.pipe
            span == IF failure = "prompt" THEN "None"
                    ELSE span_gen(pipe, trc.lf, trc.trace_id, span_raised)
            span_called == /\ failure # "prompt"
                           /\ trc.lf = "enabled"
                           /\ (pipe = "bcs" => trc.trace_id # NoTraceId)
            end_called == failure \notin {"prompt", "generation"} /\ span # "None"
            failed == failure # "none"
                        \/ (end_called /\ end_raises_into_body(span, end_raised))
            calls == (IF span_called
                      THEN <<TraceCall("span", ex[p].run_id, span_raised)>> ELSE <<>>)
                     \o (IF end_called
                         THEN <<TraceCall("end", ex[p].run_id, end_raised)>> ELSE <<>>)
        IN  /\ span_raised => span_called /\ trc.trace_id # NoTraceId
            /\ end_raised => end_called /\ span = "real"
            /\ IgBody(p) \/ BcsBody(p)
            /\ ex'[p].failed = failed
            /\ trc' = [trc EXCEPT !.calls = @ \o calls, !.failure = failure,
                                  !.body_done = TRUE]

\* The steps of a run that make no tracing call.
UntracedStep(p) ==
    /\ ex[p].pc # TracingPoint(ex[p].brief.pipe) \/ (trc.started /\ trc.proc = p)
    /\ \/ IgResolve(p) \/ IgRename(p) \/ IgSymlink(p)
       \/ BcsResolve(p) \/ BcsSymlink(p) \/ BcsManifest(p)
       \/ OptResolve(p) \/ OptSymlink(p) \/ OptBody(p) \/ OptManifest(p)
    /\ UNCHANGED trc

TraceInit ==
    /\ fs \in {BaseFs, LegacyFs}
    /\ tmp = <<>>
    /\ ex = [p \in Procs |-> IdleEx]
    /\ hx = <<>>
    /\ mig = <<>> /\ idx = <<>> /\ swp = <<>> /\ chn = <<>>
    /\ trc = NoTrace

\* One run at a time, each with its own tracing.
TraceNext ==
    /\ \E p \in Procs :
          \/ Quiescent /\ Start(p) /\ trc' = NoTrace
          \/ StartTrace(p)
          \/ TracedBody(p)
          \/ UntracedStep(p)
    /\ UNCHANGED <<hx, mig, idx, swp, chn>>

TraceSpec == TraceInit /\ [][TraceNext]_vars

\* ------------------------------------------------------------ properties
Done(p) == ex[p].pc = "done"

\* Canonical run directories: directories below a job root.
RunDirs == {path \in DOMAIN fs : path[1] # LegacyRoot /\ fs[path].kind = "dir"}

HasManifest(path) == fs[path].manifest # <<>>
ManifestAt(path) == fs[path].manifest[1]

\* Canonical directories of job_id whose manifest records inputs_hash.
RunDirsOf(job_id, inputs_hash) ==
    {path \in RunDirs : /\ path[1] = job_id
                        /\ HasManifest(path)
                        /\ ManifestAt(path).inputs_hash = inputs_hash}

\* q ran right after p and nothing has started since q returned.
TwiceInSequence(p, q) ==
    /\ q = p + 1
    /\ Done(p) /\ Done(q)
    /\ \A r \in Procs : r > q => ex[r].pc = "idle"

\* C1: when the same brief is executed twice in sequence, the second
\* execution returns the first one's run_id with idempotent_replay=true, its
\* temp dir is gone, and exactly one canonical run directory of that job
\* records the brief's inputs_hash.
C1_IdempotentReplay ==
    \A p, q \in Procs :
        (TwiceInSequence(p, q) /\ ex[p].brief = ex[q].brief)
        => /\ ex[q].ret.kind = "returned"
           /\ ex[q].ret.idempotent_replay
           /\ ex[q].ret.run_id = ex[p].ret.run_id
           /\ q \notin DOMAIN tmp
           /\ Cardinality(RunDirsOf(JobId(ex[q].brief), ex[q].inputs_hash)) = 1

C1_Witness ==
    \E p, q \in Procs :
        /\ TwiceInSequence(p, q) /\ ex[p].brief = ex[q].brief
        /\ ex[p].ret.kind = "returned" /\ ~ex[p].ret.idempotent_replay
        /\ ex[q].ret.idempotent_replay

\* C2: an idempotent replay writes nothing to the existing run: every step
\* of an execution that resolved to a replay leaves the run directory it
\* found (the one whose manifest records its inputs_hash under its run_id)
\* in the tree with identical content.
C2_ReplayWritesNothing ==
    [][\A p \in Procs :
         (ex'[p] # ex[p] /\ ex'[p].replay)
         => \A path \in DOMAIN fs :
              ( /\ fs[path].kind = "dir"
                /\ fs[path].manifest # <<>>
                /\ fs[path].manifest[1].inputs_hash = ex'[p].inputs_hash
                /\ fs[path].manifest[1].run_id = ex'[p].run_id )
              => \E path2 \in DOMAIN fs' : fs'[path2] = fs[path]]_vars

\* No historical instagram_copy run is on disk (the legacy layout was empty
\* at the start).
NoLegacyData ==
    ~\E path \in DOMAIN fs :
        /\ fs[path].kind = "dir"
        /\ fs[path].manifest # <<>>
        /\ fs[path].manifest[1].writer = HistoricalWriter
        /\ fs[path].manifest[1].job_id = JobId(LegacyBrief)

\* Two briefs of one job with different inputs_hash and equal run_id_base
\* were the first two executions, one after the other.
CollidingPair(p, q) ==
    /\ p = 1 /\ TwiceInSequence(p, q)
    /\ NoLegacyData
    /\ JobId(ex[p].brief) = JobId(ex[q].brief)
    /\ ex[p].inputs_hash # ex[q].inputs_hash
    /\ ex[p].base_run_id = ex[q].base_run_id

CollisionResolved(p, q) ==
    LET job_id == JobId(ex[q].brief)
        base == ex[p].base_run_id
        second == SuffixedRunId(base, FirstSuffix)
    IN  /\ ex[p].ret.run_id = base
        /\ ex[q].ret.run_id = second
        /\ <<job_id, base>> \in RunDirsOf(job_id, ex[p].inputs_hash)
        /\ <<job_id, second>> \in RunDirsOf(job_id, ex[q].inputs_hash)
        /\ ex[q].final_run_dir = <<job_id, second>>

\* C3: two briefs with different inputs_hash and equal run_id_base, executed
\* one after the other, get the run ids run_id_base and run_id_base-2; the
\* second is finalized at artifacts/<job_id>/<run_id_base>-2 and both
\* directories persist with a manifest recording their own inputs_hash.
C3_CollisionDeterminism ==
    \A p, q \in Procs : CollidingPair(p, q) => CollisionResolved(p, q)

\* C4: when the final rename of a run finds the directory present and its
\* manifest records the same inputs_hash, the run discards its temp dir and
\* returns that run_id as an idempotent replay.
C4_RenameLoserReplays ==
    [][\A p \in Procs :
         ( /\ ex[p].pc = "ig_rename" /\ ex'[p].pc # "ig_rename"
           /\ ex[p].final_run_dir \in DOMAIN fs
           /\ _read_manifest_inputs_hash(ex[p].final_run_dir) = ex[p].inputs_hash )
         => /\ ex'[p].ret = Returned(ex[p].run_id, TRUE)
            /\ p \notin DOMAIN tmp']_vars

\* C5: a run that lost the final rename to a run with the same run_id_base
\* and another inputs_hash ends with a finalized directory of its own.
C5_RenameLoserAdvances ==
    \A p \in Procs :
        ( /\ Done(p) /\ ex[p].brief.pipe = "ig" /\ ~ex[p].replay
          /\ ex[p].final_run_dir \in RunDirs
          /\ HasManifest(ex[p].final_run_dir)
          /\ ManifestAt(ex[p].final_run_dir).inputs_hash # ex[p].inputs_hash )
        => \E path \in RunDirsOf(JobId(ex[p].brief), ex[p].inputs_hash) :
              ManifestAt(path).writer = p

C7_NoPartialRunDir ==
    \A path \in RunDirs :
        /\ HasManifest(path)
        /\ \E pipe \in Pipes : DOMAIN fs[path].inputs = SnapshotNames(pipe)

\* C8: no two run directories with the same run_id, in the canonical and
\* legacy locations, have manifests with different inputs_hash.
C8_NoConflictingRunDirs ==
    \A a, b \in DOMAIN fs :
        ( /\ a # b /\ a[2] = b[2]
          /\ fs[a].kind = "dir" /\ fs[b].kind = "dir"
          /\ fs[a].manifest # <<>> /\ fs[b].manifest # <<>> )
        => fs[a].manifest[1].inputs_hash = fs[b].manifest[1].inputs_hash

\* C9: once a canonical run directory has its manifest (it is finalized), no
\* step of any pipeline creates, modifies or deletes anything beneath it.
C9_FinalizedRunImmutable ==
    [][\A path \in RunDirs :
         HasManifest(path) => (path \in DOMAIN fs' /\ fs'[path] = fs[path])]_vars

\* Decimal digits, no sign, no leading zero.
IsDecimal(str) ==
    /\ Len(str) > 0
    /\ \A i \in 1..Len(str) : \E d \in 1..10 : str[i] = DigitChars[d]
    /\ (Len(str) > 1 => str[1] # "0")

RECURSIVE ParseNat(_)
ParseNat(str) ==
    IF str = <<>> THEN 0
    ELSE 10 * ParseNat(SubSeq(str, 1, Len(str) - 1))
         + (CHOOSE d \in 0..9 : DigitChars[d + 1] = str[Len(str)])

\* run_id is H[0:32] or H[0:32]-k with k >= 2, H the hex of inputs_hash.
WellFormedRunId(run_id, inputs_hash) ==
    LET H == SubSeq(inputs_hash, Sha256PrefixLen + 1, Len(inputs_hash))
        suffix == SubSeq(run_id, RunIdLen + 2, Len(run_id))
    IN  /\ Len(H) = HexLen
        /\ Len(run_id) >= RunIdLen
        /\ SubSeq(run_id, 1, RunIdLen) = SubSeq(H, 1, RunIdLen)
        /\ \/ Len(run_id) = RunIdLen
           \/ /\ run_id[RunIdLen + 1] = "-"
              /\ IsDecimal(suffix)
              /\ ParseNat(suffix) >= 2

AllManifests ==
    {fs[path].manifest[1] : path \in {q \in DOMAIN fs : fs[q].manifest # <<>>}}
    \cup {tmp[p].manifest[1] : p \in {q \in DOMAIN tmp : tmp[q].manifest # <<>>}}

\* C10: for every run any pipeline produces, the manifest's run_id is
\* H[0:32] or H[0:32]-k for k >= 2, H the hex of the manifest's inputs_hash.
C10_RunIdDerivation ==
    \A m \in AllManifests : WellFormedRunId(m.run_id, m.inputs_hash)

C10_Witness ==
    \E m \in AllManifests :
        /\ m.writer # HistoricalWriter
        /\ Len(m.run_id) > RunIdLen
        /\ \E m2 \in AllManifests : m2.writer # HistoricalWriter /\ Len(m2.run_id) = RunIdLen

\* ------------------------------------------- properties of the hashing
Finalized(i) == hx # <<>> /\ hx[i].pc = "done"

\* The hash recomputed from the files under inputs/ of the run directory.
HashOfStoredInputs(i) ==
    inputs_hash_of([n \in DOMAIN hx[i].run_inputs |-> sha256_bytes(hx[i].run_inputs[n])])

\* C11: for every finalized run of every pipeline, manifest.inputs_hash is
\* the canonical hash of the mapping from each declared snapshot name to the
\* SHA-256 of the bytes of that snapshot's file under inputs/ of the run
\* directory.
C11_InputsHashOfStoredBytes ==
    \A i \in Execs :
        Finalized(i)
        => /\ DOMAIN hx[i].run_inputs = SnapshotNames(hx[i].pipe)
           /\ hx[i].manifest.inputs_hash = HashOfStoredInputs(i)

\* C12: two executions whose snapshot files are byte-equal obtain equal
\* inputs_hash and equal run_id, whatever their queue_job_id, clock, trace
\* id and temp directory name.
C12_HashDependsOnSnapshotsOnly ==
    \A i, j \in Execs :
        (Finalized(i) /\ Finalized(j) /\ hx[i].run_inputs = hx[j].run_inputs)
        => /\ hx[i].manifest.inputs_hash = hx[j].manifest.inputs_hash
           /\ hx[i].manifest.run_id = hx[j].manifest.run_id

\* The declared snapshots whose stored bytes differ between two runs.
ChangedSnapshots(i, j) ==
    {n \in DOMAIN hx[i].run_inputs : hx[i].run_inputs[n] # hx[j].run_inputs[n]}

\* C13: when the content of one declared snapshot differs between two
\* executions and the others are the same, their inputs_hash differ and
\* their run_id differ.
C13_NoSilentDrift ==
    \A i, j \in Execs :
        (Finalized(i) /\ Finalized(j) /\ Cardinality(ChangedSnapshots(i, j)) = 1)
        => /\ hx[i].manifest.inputs_hash # hx[j].manifest.inputs_hash
           /\ hx[i].manifest.run_id # hx[j].manifest.run_id

C13_Witness ==
    /\ Finalized(1) /\ Finalized(2)
    /\ hx[1].pipe = "bcs"
    /\ ChangedSnapshots(1, 2) = {"prompt_template"}

\* The second execution found a required output of the prior run modified.
PriorOutputModified ==
    /\ Finalized(1) /\ Finalized(2)
    /\ hx[1].pipe = "opt"
    /\ PriorOutputs(hx[1].world) # PriorOutputs(hx[2].world)

\* C14: if a file listed in required_outputs is modified in the prior run's
\* outputs/ between two executions of the downstream job, the second
\* execution records another prior_output_hashes entry for that file and
\* obtains another run_id.
C14_ChainDrift ==
    PriorOutputModified
    => /\ \A o \in RequiredOutputs :
            PriorOutputs(hx[1].world)[o] # PriorOutputs(hx[2].world)[o]
            => hx[1].prior_output_hashes[o] # hx[2].prior_output_hashes[o]
       /\ hx[1].manifest.run_id # hx[2].manifest.run_id

C14_Witness ==
    /\ PriorOutputModified
    /\ hx[1].world.brief = hx[2].world.brief

\* Paths whose manifest was written by run p.
ManifestsOf(p) ==
    {path \in DOMAIN fs : fs[path].kind = "dir" /\ HasManifest(path)
                          /\ ManifestAt(path).writer = p}

\* The final rename of p finds its destination occupied.
RenameOntoOccupied(p) ==
    /\ ex[p].pc = "ig_rename"
    /\ ex'[p] # ex[p]
    /\ ex[p].final_run_dir \in DOMAIN fs
    /\ ~IsEmptyDir(fs[ex[p].final_run_dir])

\* C16: when the rename of the temp dir to the canonical destination fails,
\* the temp dir is removed, an exception is raised to the caller, and the
\* run leaves no artifact on disk: the tree is as it was and no manifest of
\* the run is in it.
C16_RenameFailureLeavesNothing ==
    [][\A p \in Procs :
         RenameOntoOccupied(p)
         => /\ p \in DOMAIN tmp /\ p \notin DOMAIN tmp'
            /\ ex'[p].pc = "done" /\ ex'[p].ret.kind = "raised"
            /\ fs' = fs
            /\ ManifestsOf(p) = {}]_vars

C16_Witness ==
    \E p \in Procs :
        /\ Done(p) /\ ex[p].ret = Raised(ex[p].run_id, "finalize")
        /\ p \notin DOMAIN tmp
        /\ ex[p].final_run_dir \in DOMAIN fs
        /\ ManifestsOf(p) = {}

\* A run of p ended in an error other than a failure of the job body.
FailedOutsideBody(p) ==
    /\ Done(p)
    /\ ex[p].ret.kind = "raised"
    /\ ex[p].ret.error # "body"

JobRefValid(job_ref) ==
    /\ job_ref # <<>>
    /\ job_ref[1] = "jobs"
    /\ \A i \in 1..Len(job_ref) : job_ref[i] # ".."

\* C17: for every pipeline entry point, a submission whose job_ref is
\* absolute, not under jobs/ or holds "..", or whose brief is malformed,
\* lacks job_id or names an unknown job_type, is rejected with an error
\* before any temp directory or run directory is created.
C17_InvalidSubmissionRejected ==
    [][\A p \in Procs : \A s \in Submissions :
         ( /\ ~JobRefValid(s.job_ref) \/ s.file # "ok"
           /\ IgSubmit(p, s) \/ BcsSubmit(p, s) \/ OptSubmit(p, s) )
         => /\ ex'[p].pc = "done" /\ ex'[p].ret.kind = "raised"
            /\ UNCHANGED <<fs, tmp>>]_vars

\* C18: a doctrine load failure aborts the run before any input snapshot is
\* written, and no run directory exists for the run afterwards.
C18_DoctrineFailureBeforeSnapshots ==
    \A p \in Procs :
        (Done(p) /\ ex[p].ret.kind = "raised" /\ ex[p].ret.error = "doctrine")
        => /\ p \in DOMAIN tmp => tmp[p].inputs = EmptyFiles
           /\ ex[p].final_run_dir = <<>>
           /\ ManifestsOf(p) = {}

\* No directory holding prior_run_id with a manifest has every output
\* brief b requires.
PriorUnusable(b) ==
    \A r \in PriorArtifactRoots(PriorRunId) :
        ~(required_outputs(b) \subseteq DOMAIN fs[Resolved(<<r, PriorRunId>>)].outputs)

\* A call of brand_optimization by p whose brief passed BriefSpec.
OptCalled(p) ==
    /\ ex[p].pc = "idle"
    /\ ex'[p].pc # "idle"
    /\ ex'[p].brief.pipe = "opt"

\* C19: when a chainable job cannot resolve prior_run_id to a run directory
\* with a manifest, or a required output is missing from that run's
\* outputs/, the job fails with an error before inputs_hash is derived and
\* without creating a run directory (or a temp dir).
C19_PriorArtifactMissingIsFatal ==
    [][\A p \in Procs :
         (OptCalled(p) /\ PriorUnusable(ex'[p].brief))
         => /\ ex'[p].pc = "done" /\ ex'[p].ret.kind = "raised"
            /\ ex'[p].inputs_hash = <<>>
            /\ ex'[p].final_run_dir = <<>>
            /\ UNCHANGED <<fs, tmp>>]_vars

C19_Witness ==
    \E p \in Procs :
        /\ Done(p) /\ ex[p].brief.pipe = "opt"
        /\ ex[p].ret = Raised(<<>>, "prior_artifact_missing")
        /\ PriorArtifactRoots(PriorRunId) # {}
        /\ PriorUnusable(ex[p].brief)
        /\ ex[p].inputs_hash = <<>>

\* run_id_base and every suffixed run_id of run p is occupied by a directory
\* whose manifest records another inputs_hash.
SuffixSpaceFull(p) ==
    LET job_id == JobId(ex[p].brief)
        occupied(run_id) ==
            /\ Exists(<<job_id, run_id>>)
            /\ _read_manifest_inputs_hash(<<job_id, run_id>>) # ex[p].inputs_hash
    IN  /\ occupied(ex[p].base_run_id)
        /\ \A suffix \in FirstSuffix..MaxSuffix :
              occupied(SuffixedRunId(ex[p].base_run_id, suffix))

\* C20: when run_id_base and every suffix run_id_base-2 ... run_id_base-1000
\* is occupied by a directory whose manifest inputs_hash differs from the
\* run's, the run fails with a collision-limit error and no run directory is
\* created or modified.
C20_CollisionLimit ==
    [][\A p \in Procs :
         ( /\ ex[p].pc \in {"ig_resolve", "bcs_resolve", "opt_resolve"}
           /\ ex'[p] # ex[p]
           /\ SuffixSpaceFull(p) )
         => /\ ex'[p].pc = "done"
            /\ ex'[p].ret = Raised(<<>>, "collision_limit")
            /\ fs' = fs]_vars

\* A call of migrate_manifest takes place in this step.
MigrateCalled == mig # <<>> /\ mig.pc = "idle" /\ mig'.calls = mig.calls + 1

\* manifest.json and its backup are as they were.
MigrationDiskUnchanged == mig'.manifest = mig.manifest /\ mig'.backup = mig.backup

StoredVersion == schema_version_of(json_load(mig.manifest))

HistoryOf(manifest_data) ==
    IF "migration_history" \in DOMAIN manifest_data
    THEN manifest_data.migration_history ELSE <<>>

\* C21: migrating a manifest that is already at the target version is a
\* no-op: the call succeeds, manifest.json is not rewritten, no backup is
\* written and no migration_history record is appended, so a second
\* application leaves the manifest the first one wrote.
C21_MigrationIdempotent ==
    [][(MigrateCalled /\ StoredVersion = mig'.details.target_version)
       => /\ MigrationDiskUnchanged
          /\ mig'.pc = "idle"
          /\ mig'.details.success
          /\ mig'.details.migrations_applied = AlreadyAtTarget]_vars

C21_Witness ==
    /\ mig # <<>> /\ mig.pc = "idle" /\ mig.calls = 2
    /\ mig.details.migrations_applied = AlreadyAtTarget
    /\ mig.manifest.layout = "json.dump"
    /\ Len(HistoryOf(json_load(mig.manifest))) = 1
    /\ mig.backup.layout = "write_json"

\* Keys a migration may add, and the default each one gets.
AddedDefaults ==
    [input_snapshots |-> EmptySnapshots, inputs_hash |-> "null",
     chain_metadata |-> DefaultChainMetadata]

C23_DryRunTouchesNothing ==
    [][(MigrateCalled /\ mig'.dry_run)
       => MigrationDiskUnchanged /\ mig'.pc = "idle"]_vars

C23_Witness ==
    /\ mig # <<>> /\ mig.pc = "idle" /\ mig.dry_run
    /\ mig.details.success
    /\ mig.details.migrations_applied # AlreadyAtTarget
    /\ mig.backup # NoFile
    /\ StoredVersion # mig.details.target_version

\* C24: when a migration fails (no path, a validation fails, a transform
\* raises), manifest.json is what it was before the call and an existing
\* backup is preserved.
C24_FailedMigrationTouchesNothing ==
    [][(MigrateCalled /\ ~mig'.details.success)
       => MigrationDiskUnchanged /\ mig'.pc = "idle"]_vars

C24_Witness ==
    /\ mig # <<>> /\ mig.pc = "idle" /\ mig.calls = 2
    /\ ~mig.details.success
    /\ mig.details.error = "Migration failed"
    /\ mig.backup # NoFile
    /\ mig.manifest.layout = "json.dump"

WithoutLastRecord(manifest_data) ==
    IF Len(manifest_data.migration_history) = 1
    THEN [k \in DOMAIN manifest_data \ {"migration_history"} |-> manifest_data[k]]
    ELSE Put(manifest_data, "migration_history",
             SubSeq(manifest_data.migration_history, 1, Len(manifest_data.migration_history) - 1))

\* C26: every successful non-dry-run migration that changes the version goes
\* on to write, and the manifest it writes has exactly one more
\* migration_history record: from is the schema_version before the call, to
\* is the target version, checksum_before and checksum_after are those of
\* the record before and after the transforms; the schema_version on disk
\* is the target version.
C26_HistoryRecord ==
    /\ [][(MigrateCalled /\ mig'.details.success /\ ~mig'.dry_run
           /\ mig'.details.migrations_applied # AlreadyAtTarget)
          => mig'.pc = "backup"]_vars
    /\ [][(mig # <<>> /\ mig'.manifest # mig.manifest)
          => LET before == json_load(mig.manifest)
                 after == json_load(mig'.manifest)
                 record == after.migration_history[Len(after.migration_history)]
             IN  /\ Len(after.migration_history) = Len(HistoryOf(before)) + 1
                 /\ record.from_version = schema_version_of(before)
                 /\ record.to_version = mig.details.target_version
                 /\ record.from_version # record.to_version
                 /\ record.checksum_before = checksum(before)
                 /\ record.checksum_after = checksum(WithoutLastRecord(after))
                 /\ after.schema_version = mig.details.target_version]_vars

C26_Witness ==
    /\ mig # <<>> /\ mig.pc = "idle" /\ mig.details.backup_created
    /\ LET manifest_data == json_load(mig.manifest)
       IN  /\ Len(HistoryOf(manifest_data)) = 2
           /\ manifest_data.migration_history[2].from_version = "1.1.0"
           /\ manifest_data.migration_history[2].to_version = "1.3.0"
           /\ manifest_data.schema_version = "1.3.0"

\* -------------------------------------------- properties of verification
Reindexed == idx # <<>> /\ idx.kind = "reindex"
VerifiedRun == idx # <<>> /\ idx.kind = "verify_run"

\* C27: both integrity verifiers accept the run_id of every run the
\* collision resolver produced, H[0:32] or H[0:32]-N with N >= 2: a
\* verify_run_determinism call reports check run_id valid, and the
\* reindexer's run_id rule has no error for any manifest on disk.
C27_VerifiersAcceptResolverRunIds ==
    /\ VerifiedRun => idx.checks["run_id"]
    /\ Reindexed => \A path \in valid_manifests :
                        reindex_run_id_errors(_load_manifest(path)) = {}

\* Run directories present on disk: the directories below a job root or
\* below the legacy root.
RunDirsOnDisk == {path \in DOMAIN fs : fs[path].kind = "dir"}

IndexedFromDisk(path) ==
    /\ fs[path].manifest # <<>>
    /\ RowKey(path) \in DOMAIN idx.rows
    /\ idx.rows[RowKey(path)].manifest_json = _load_manifest(path)
    /\ _validate_manifest_integrity(path) = {}

\* C28: after reindex in verify mode exits 0, every run directory on disk
\* has an index row keyed (job_id, run_id) whose manifest_json is the
\* on-disk manifest and whose manifest passed every check; a run failing
\* a check is reported and the exit code is non-zero.
C28_ReindexEqualsDisk ==
    (Reindexed /\ idx.verify) =>
        /\ idx.exit_code = 0 => \A path \in RunDirsOnDisk : IndexedFromDisk(path)
        /\ \A path \in valid_manifests :
              _validate_manifest_integrity(path) # {} =>
                  /\ idx.exit_code # 0
                  /\ \E reported \in idx.verify_failures : RowKey(reported) = RowKey(path)

\* ------------------------------------------------ properties of tracing
TracedRun == trc.proc \in Procs

\* C29: no tracing call (trace, span, end of span) is made before
\* collision resolution has fixed the run's run_id: every call is made by
\* a run that has its run_id, carries that run_id, and a step that makes
\* a call leaves the run_id as it is; a replay makes no call.
C29_TracingAfterRunId ==
    /\ [](TracedRun /\ trc.calls # <<>> =>
            /\ ex[trc.proc].run_id # <<>>
            /\ ~ex[trc.proc].replay
            /\ \A i \in 1..Len(trc.calls) : trc.calls[i].run_id = ex[trc.proc].run_id)
    /\ [][(trc'.calls # trc.calls /\ trc'.calls # <<>>) =>
            /\ ex[trc'.proc].run_id # <<>>
            /\ ex'[trc'.proc].run_id = ex[trc'.proc].run_id]_vars

C29_Witness ==
    /\ TracedRun
    /\ Len(trc.calls) = 3
    /\ ex[trc.proc].pc = "done"
    /\ StartsWith(ex[trc.proc].run_id, ex[trc.proc].base_run_id \o <<"-">>)

\* The manifest of the traced run, in the temp dir or in the run directory.
TracedManifest ==
    LET p == trc.proc
    IN  IF p \in DOMAIN tmp /\ tmp[p].manifest # <<>> THEN tmp[p].manifest
        ELSE IF ex[p].final_run_dir \in DOMAIN fs THEN fs[ex[p].final_run_dir].manifest
        ELSE <<>>

\* C30: a failure inside a tracing call does not change the outcome of the
\* run: once the body has run, the run failed exactly when a statement
\* outside tracing raised, its manifest has the matching status, and the
\* run returns or raises accordingly, as it does with tracing disabled.
C30_TracingNeverThrows ==
    (TracedRun /\ trc.body_done) =>
        /\ ex[trc.proc].failed = (trc.failure # "none")
        /\ TracedManifest # <<>> =>
              (TracedManifest[1].writer = trc.proc =>
                  TracedManifest[1].status
                      = IF trc.failure # "none" THEN "failed" ELSE "succeeded")
        /\ ex[trc.proc].ret.kind = "returned" => trc.failure = "none"

\* ------------------------------------------- properties of run contents
\* Every manifest.json on disk, in a run directory or in a temp dir.
ManifestsOnDisk ==
    {fs[path].manifest[1] : path \in {q \in DOMAIN fs : fs[q].manifest # <<>>}}
        \cup {tmp[p].manifest[1] : p \in {q \in DOMAIN tmp : tmp[q].manifest # <<>>}}

\* C31: every manifest.json written to disk has status running, succeeded
\* or failed; no other status value is persisted.
C31_StatusValues ==
    \A manifest \in ManifestsOnDisk : manifest.status \in {"running", "succeeded", "failed"}

\* The finalized runs of the chainable stage: canonical directories of
\* brand_optimization that hold a manifest.
ChainableRuns == {path \in DOMAIN fs : path[1] = "opt" /\ fs[path].manifest # <<>>}

\* The brief of the run a manifest records.
BriefOfManifest(manifest) ==
    CHOOSE b \in Briefs : compute_inputs_hash(b) = manifest.inputs_hash

\* C32: for every finalized chainable run, input_snapshots contains
\* prior_artifact and the prior_artifact snapshot file of the run directory
\* holds a prior_output_hashes entry for every required_outputs entry of
\* the run's brief.
C32_PriorArtifactCoversRequiredOutputs ==
    \A path \in ChainableRuns :
        LET manifest == fs[path].manifest[1]
        IN  /\ "prior_artifact" \in SnapshotNames(manifest.job_id)
            /\ "prior_artifact" \in DOMAIN fs[path].inputs
            /\ required_outputs(BriefOfManifest(manifest))
                  \subseteq PriorOutputHashNames(fs[path].inputs["prior_artifact"])

\* The run directories written by the runs of the model: directories with
\* a manifest that is not historical data.
WrittenRuns ==
    {path \in DOMAIN fs : /\ fs[path].kind = "dir"
                          /\ fs[path].manifest # <<>>
                          /\ fs[path].manifest[1].writer # HistoricalWriter}

\* C33: in every finalized run directory each file under outputs/ has an
\* entry in manifest.artifacts keyed by its run-relative path whose sha256
\* is the hash of the file's bytes.
C33_ArtifactsMatchOutputs ==
    \A path \in WrittenRuns :
        \A o \in DOMAIN fs[path].outputs :
            \E entry \in ArtifactEntries(fs[path].manifest[1], fs[path]) :
                /\ entry.key = <<"outputs", o>>
                /\ entry.sha256 = fs[path].outputs[o]

\* ------------------------------------------- legacy layout and promotion
\* Historical data may also hold a brand_compliance_score run as a plain
\* directory in the legacy layout.
LegacyBcsBrief == [pipe |-> "bcs", v |-> 1]
LegacyBcsFs ==
    Put(BaseFs, <<LegacyRoot, HistoricalRunId(LegacyBcsBrief)>>,
        HistoricalRun(LegacyBcsBrief, "compliance_scores.json"))

LegacyInit ==
    /\ fs \in {LegacyFs, LegacyBcsFs}
    /\ tmp = <<>>
    /\ ex = [p \in Procs |-> IdleEx]
    /\ hx = <<>>
    /\ mig = <<>> /\ idx = <<>> /\ trc = <<>> /\ swp = <<>> /\ chn = <<>>

\* One run at a time over historical data in the legacy layout.
LegacySpec == LegacyInit /\ [][SeqNext]_vars

\* instagram_copy lines 316-318 and 346-348: the actions printed by the
\* footer of an idempotent replay are symlink_actions, which after a
\* promotion hold the creation of the alias; promoted_legacy is only
\* appended by the footer of a run that executed its body (lines 636-639).
ReplayFooterActions(e) ==
    IF e.promoted_legacy THEN {"legacy_alias_created"} ELSE {}

\* The resolver of process p finds its run as a plain directory at the
\* legacy location, with no canonical directory, and returns a replay.
ResolvesToLegacyDir(p) ==
    /\ ex[p].pc \in {"ig_resolve", "bcs_resolve"}
    /\ ex'[p].pc = "done" /\ ex'[p].replay
    /\ <<LegacyRoot, ex'[p].run_id>> \in DOMAIN fs
    /\ fs[<<LegacyRoot, ex'[p].run_id>>].kind = "dir"
    /\ <<JobId(ex[p].brief), ex'[p].run_id>> \notin DOMAIN fs

\* C34: when the collision resolver meets a matching run that is a plain
\* directory at the legacy location and no canonical directory exists, the
\* directory is renamed to the canonical location, a relative symlink to it
\* replaces it at the legacy path, and the promotion is listed among the
\* actions of the run footer.
C34_LegacyDirectoryPromoted ==
    [][\A p \in Procs :
        ResolvesToLegacyDir(p) =>
            LET legacy_path == <<LegacyRoot, ex'[p].run_id>>
                canonical_path == <<JobId(ex[p].brief), ex'[p].run_id>>
            IN  /\ canonical_path \in DOMAIN fs'
                /\ fs'[canonical_path] = fs[legacy_path]
                /\ legacy_path \in DOMAIN fs'
                /\ fs'[legacy_path] = Link(canonical_path)
                /\ "promoted_legacy" \in ReplayFooterActions(ex'[p])]_vars

\* ------------------------------------------------------ tmp-sweeper
\* The temp directory of a run of brief b: instagram_copy lines 120-125 and
\* brand_compliance_score lines 116-119 use artifacts/<job_id>/.tmp/tmp-<uuid>,
\* brand_optimization lines 170-173 uses <repo_root>/.tmp/optimize-<ms>.
temp_dir(b) ==
    IF b.pipe = "opt"
    THEN [base |-> <<".tmp">>, prefix |-> "optimize-"]
    ELSE [base |-> <<"artifacts", JobId(b), ".tmp">>, prefix |-> "tmp-"]

TempDirs == {temp_dir(b) : b \in Briefs}

\* cleanup_tmp.py lines 12-34: the directories named tmp-* under
\* artifacts/runs/.tmp and under artifacts/<job_dir>/.tmp of every other
\* directory of artifacts/.
_find_tmp_dirs ==
    {path \in DOMAIN swp :
        /\ path.prefix = "tmp-"
        /\ \/ path.base = <<"artifacts", LegacyRoot, ".tmp">>
           \/ \E job_dir \in Pipes \ {LegacyRoot} : path.base = <<"artifacts", job_dir, ".tmp">>}

\* The worker running p is killed between two I/O calls: its temp dir stays
\* behind and the worker is restarted.
Abort(p) ==
    /\ p \in DOMAIN tmp
    /\ ex[p].pc \notin {"idle", "done"}
    /\ temp_dir(ex[p].brief) \notin DOMAIN swp
    /\ swp' = Put(swp, temp_dir(ex[p].brief), FALSE)
    /\ tmp' = Remove(tmp, p)
    /\ ex' = [ex EXCEPT ![p] = [IdleEx EXCEPT !.pc = "done"]]
    /\ UNCHANGED <<fs, hx, mig, idx, trc, chn>>

\* The configured number of hours passes: every orphaned temp dir is now
\* older than the threshold.
HoursPass ==
    /\ \E path \in DOMAIN swp : ~swp[path]
    /\ swp' = [path \in DOMAIN swp |-> TRUE]
    /\ UNCHANGED <<fs, tmp, ex, hx, mig, idx, trc, chn>>

\* cleanup_tmp.py lines 37-60: a run of the sweeper removes every candidate
\* whose mtime is before the cutoff.
Sweep ==
    /\ swp' = [path \in {q \in DOMAIN swp : ~(q \in _find_tmp_dirs /\ swp[q])} |-> swp[path]]
    /\ UNCHANGED <<fs, tmp, ex, hx, mig, idx, trc, chn>>

SweepNext ==
    \/ SeqNext
    \/ \E p \in Procs : Abort(p)
    \/ HoursPass
    \/ Sweep

\* Time passes and the sweeper is run again and again (it is scheduled
\* periodically).
SweepSpec == Init /\ [][SweepNext]_vars /\ WF_vars(HoursPass) /\ WF_vars(Sweep)

\* C35: every temp directory a pipeline leaves orphaned is eventually
\* removed by a run of the tmp-sweeper, once it is older than the
\* configured number of hours.
C35_OrphansEventuallySwept ==
    \A path \in TempDirs : (path \in DOMAIN swp) ~> (path \notin DOMAIN swp)

\* ------------------------------------------------ properties of temp dirs
\* The executions that have returned or raised.
Finished == {p \in Procs : ex[p].pc = "done" /\ ex[p].ret.kind # "none"}

\* C36: after any pipeline execution returns or raises (success, replay,
\* body failure, rename failure, doctrine or prompt-template load failure,
\* collision-limit failure) the temp directory it created no longer exists.
C36_NoOrphanedStagingDirs ==
    \A p \in Finished : p \notin DOMAIN tmp

\* ------------------------------------------- properties of legacy aliases
\* The legacy aliases on disk: symlinks under artifacts/runs.
LegacyAliases == {path \in DOMAIN fs : path[1] = LegacyRoot /\ fs[path].kind = "link"}

\* The alias at path points to the canonical directory of the run of that
\* run_id, which exists and holds manifest.json.
AliasCorrect(path) ==
    LET target == fs[path].target
    IN  /\ target[1] # LegacyRoot /\ target[2] = path[2]
        /\ target \in DOMAIN fs
        /\ fs[target].kind = "dir"
        /\ fs[target].manifest # <<>>

\* C37: a legacy alias that exists as a symlink resolves to the canonical
\* directory of the run with that run_id, which exists and contains
\* manifest.json; no pipeline creates the alias before the canonical
\* directory exists, nor re-points or removes an alias that is correct.
C37_LegacyAliasResolves ==
    /\ [](\A path \in LegacyAliases : AliasCorrect(path))
    /\ [][\A path \in LegacyAliases :
            AliasCorrect(path) => (path \in DOMAIN fs' /\ fs'[path] = fs[path])]_vars

\* ------------------------------------------- properties of failed runs
\* The finalized failed runs of the job and inputs_hash of the execution
\* of process p.
FailedRunsFor(p) ==
    {path \in DOMAIN fs :
        /\ path[1] = JobId(ex[p].brief)
        /\ fs[path].kind = "dir"
        /\ fs[path].manifest # <<>>
        /\ fs[path].manifest[1].status = "failed"
        /\ fs[path].manifest[1].inputs_hash = ex[p].inputs_hash}

\* Process p runs the collision resolution of its submission.
Resolves(p) ==
    /\ ex[p].pc \in {"ig_resolve", "bcs_resolve", "opt_resolve"}
    /\ ex'[p].pc # ex[p].pc

\* C38: once a run is finalized with status failed, every later submission
\* with the same inputs_hash is answered as an idempotent replay of that
\* run: the job body is not executed and no new directory is created.
C38_FailedRunIsReplayed ==
    [][\A p \in Procs :
        (Resolves(p) /\ FailedRunsFor(p) # {})
        => /\ ex'[p].pc = "done"
           /\ ex'[p].ret.kind = "returned" /\ ex'[p].ret.idempotent_replay
           /\ <<JobId(ex[p].brief), ex'[p].ret.run_id>> \in FailedRunsFor(p)
           /\ fs' = fs]_vars

\* A submission was answered as a replay of a failed run.
C38_Witness ==
    \E p \in Procs :
        /\ ex[p].pc = "done" /\ ex[p].ret.kind = "returned" /\ ex[p].ret.idempotent_replay
        /\ ex[p].final_run_dir \in DOMAIN fs
        /\ fs[ex[p].final_run_dir].manifest # <<>>
        /\ fs[ex[p].final_run_dir].manifest[1].status = "failed"
        /\ fs[ex[p].final_run_dir].manifest[1].writer # p

\* ------------------------------------- properties of concurrent runs
\* The canonical run directories that record a run: directories outside
\* the legacy location that hold a manifest.
CanonicalRuns ==
    {path \in DOMAIN fs : /\ path[1] # LegacyRoot
                          /\ fs[path].kind = "dir"
                          /\ fs[path].manifest # <<>>}

\* The inputs/ files of directory d are the snapshots of a run whose
\* inputs_hash is the one its manifest records.
RecordsItsSnapshots(d) ==
    \E b \in Briefs \cup {PriorBrief} :
        /\ compute_inputs_hash(b) = fs[d].manifest[1].inputs_hash
        /\ fs[d].inputs = Snapshots(b)

\* C39: for any number of concurrent runs of one job and any interleaving
\* of their filesystem operations, at most one canonical run directory per
\* (job_id, inputs_hash) exists at any time, and the inputs/ files of each
\* canonical directory are exactly the snapshots of the run whose
\* inputs_hash its manifest records.
C39_OneDirectoryPerInputsHash ==
    /\ \A d1, d2 \in CanonicalRuns :
          ( /\ d1[1] = d2[1]
            /\ fs[d1].manifest[1].inputs_hash = fs[d2].manifest[1].inputs_hash )
          => d1 = d2
    /\ \A d \in CanonicalRuns : RecordsItsSnapshots(d)

\* ------------------------------------------------------ chain resolution
\* Trees the chain resolver can find: the prior run with its legacy alias,
\* without the alias, next to runs of another job, or no prior run at all.
NoAliasFs == Put(<<>>, <<"bcs", PriorRunId>>, HistoricalRun(PriorBrief, "compliance_scores.json"))
OtherJobFs ==
    Put(Put(BaseFs, <<"ig", HistoricalRunId(LegacyBrief)>>,
            HistoricalRun(LegacyBrief, "instagram_captions.md")),
        <<LegacyRoot, HistoricalRunId(LegacyBrief)>>, Link(<<"ig", HistoricalRunId(LegacyBrief)>>))
ChainTrees == {BaseFs, NoAliasFs, OtherJobFs, <<>>}

\* artifacts_root.iterdir() (line 144): the entries of artifacts/ in the
\* order the operating system returns them, which is arbitrary.
iterdir == {s \in [1..Cardinality(Roots) -> Roots] : \A i, j \in DOMAIN s : s[i] = s[j] => i = j}

NewChain ==
    [pc |-> "resolve", listing |-> <<>>, prior_artifact_dir |-> <<>>, prior_job_id |-> "",
     prior_artifact |-> <<>>, inputs_hash |-> <<>>, run_id |-> <<>>]

ChainInit ==
    /\ fs \in ChainTrees
    /\ tmp = <<>>
    /\ ex = [p \in Procs |-> IdleEx]
    /\ hx = <<>>
    /\ mig = <<>> /\ idx = <<>> /\ trc = <<>> /\ swp = <<>>
    /\ chn = [i \in Execs |-> NewChain]

\* Lines 142-157: the first job_dir of the listing that holds prior_run_id
\* with a manifest.json gives prior_artifact_dir and prior_job_id; with none
\* the call raises.
ResolvePrior(i) ==
    /\ chn[i].pc = "resolve"
    /\ \E listing \in iterdir :
        LET hits == {k \in DOMAIN listing : listing[k] \in PriorArtifactRoots(PriorRunId)}
            job_dir == listing[CHOOSE k \in hits : \A j \in hits : k <= j]
        IN  chn' = [chn EXCEPT ![i] =
                      IF hits = {}
                      THEN [@ EXCEPT !.pc = "raised", !.listing = listing]
                      ELSE [@ EXCEPT !.pc = "snapshot", !.listing = listing,
                                     !.prior_artifact_dir = <<job_dir, PriorRunId>>,
                                     !.prior_job_id = job_dir]]
    /\ UNCHANGED <<fs, tmp, ex, hx, mig, idx, trc, swp>>

\* Lines 231-243: the prior_artifact snapshot object, with the fields that
\* depend on what the resolver found.
prior_artifact_resolved(prior_job_id, prior_manifest) ==
    [prior_run_id |-> PriorRunId, prior_job_id |-> prior_job_id,
     prior_manifest |-> [job_id |-> prior_manifest.job_id, run_id |-> prior_manifest.run_id,
                         inputs_hash |-> prior_manifest.inputs_hash]]

\* The snapshot object as a JSON value: the objects of the model differ in
\* prior_job_id alone.
JobDirs == <<"bcs", "ig", "opt", "runs">>
JsonOf(snapshot) == CHOOSE k \in DOMAIN JobDirs : JobDirs[k] = snapshot.prior_job_id

\* Lines 244-263: the snapshot is hashed from json.dumps of the object, the
\* inputs_hash computed over all snapshot hashes, the run_id derived.
SnapshotPrior(i) ==
    /\ chn[i].pc = "snapshot"
    /\ LET c == chn[i]
           prior_manifest == fs[Resolved(c.prior_artifact_dir)].manifest[1]
           snapshot == prior_artifact_resolved(c.prior_job_id, prior_manifest)
           snapshot_hashes ==
               [n \in SnapshotNames("opt") |->
                   IF n = "prior_artifact" THEN sha256_bytes(json_dumps(JsonOf(snapshot)))
                   ELSE sha256_bytes(json_dumps(0))]
           inputs_hash == inputs_hash_of(snapshot_hashes)
       IN  chn' = [chn EXCEPT ![i] = [@ EXCEPT !.pc = "done", !.prior_artifact = snapshot,
                                               !.inputs_hash = inputs_hash,
                                               !.run_id = derive_run_id(inputs_hash, <<>>)]]
    /\ UNCHANGED <<fs, tmp, ex, hx, mig, idx, trc, swp>>

ChainNext == \E i \in Execs : ResolvePrior(i) \/ SnapshotPrior(i)

\* Two executions of the chain resolution of one brief over one tree.
ChainSpec == ChainInit /\ [][ChainNext]_vars

\* The chain resolutions that went through.
ChainsDone == {i \in Execs : chn[i].pc = "done"}

\* C40: the result of the chain resolver does not depend on the order in
\* which artifacts/* is listed: for one tree and prior_run_id the resolved
\* prior directory, prior_job_id, the prior_artifact snapshot and the
\* downstream run_id are the same for every listing, and prior_job_id is the
\* job_id of the prior run, never the legacy alias directory "runs".
C40_ChainResolutionIndependentOfOrder ==
    /\ \A i, j \in ChainsDone :
          /\ chn[i].prior_artifact_dir = chn[j].prior_artifact_dir
          /\ chn[i].prior_job_id = chn[j].prior_job_id
          /\ chn[i].prior_artifact = chn[j].prior_artifact
          /\ chn[i].run_id = chn[j].run_id
    /\ \A i \in ChainsDone :
          /\ chn[i].prior_job_id # LegacyRoot
          /\ chn[i].prior_job_id = chn[i].prior_artifact.prior_manifest.job_id

====
